---- MODULE Spec2Model ----
(***************************************************************************)
(* Model of the document ingestion orchestrator, processDocument           *)
(* (src/unnamed/part_000).  One behaviour is one call of processDocument   *)
(* against a persistent store that may already hold documents.  Every      *)
(* external collaborator (Notion, edge config, the store, the task queue,  *)
(* the file copy, fetch, the webhooks) answers nondeterministically.       *)
(*                                                                         *)
(* Strings the code inspects are sequences of tokens: "/" is always a      *)
(* token of its own, so that includes() is containment of a contiguous     *)
(* token sequence and split("/") cuts at the "/" tokens.  Identifiers are  *)
(* sequences of characters, and template strings are concatenations.       *)
(***************************************************************************)
EXTENDS Integers, Sequences, FiniteSets, TLC

\* -------------------------------------------------------------------------
\* Bounds of the model
\* -------------------------------------------------------------------------

\* Number of documents the store may hold before the call.
MaxExisting == 1

\* Largest page count a payload declares.
MaxNumPages == 2

\* -------------------------------------------------------------------------
\* Values
\* -------------------------------------------------------------------------

\* JavaScript undefined, for string-valued optional fields.  A content type
\* is the pair of its prefix up to the slash and the rest, or None.
Undefined == "undefined"

\* An absent optional value / null reference, and a present one.
None == <<>>
Some(x) == <<x>>

TeamIds == {<<"t", "1">>, <<"t", "2">>}
TeamPlans == {"free", "pro"}
UserId == <<"u", "1">>

Digit(n) == CASE n = 0 -> "0" [] n = 1 -> "1" [] n = 2 -> "2" [] n = 3 -> "3"
              [] n = 4 -> "4" [] OTHER -> "9"

\* Identifiers the store generates for new rows.
DocId(n) == <<"d", Digit(n)>>
VersionId(n) == <<"v", Digit(n)>>
LinkId(n) == <<"l", Digit(n)>>

\* Keys of the payloads.
PathKey == <<"team1", "/", "doc_abc", "/", "report", ".pdf">>
GoodUrl == <<"https:", "/", "/", "example", ".com", "/", "x">>
BadUrl == <<"https:", "/", "/", "bad", ".com", "/", "x">>
HttpUrl == <<"http:", "/", "/", "internal", ".local", "/", "x">>
LocalhostUrl == <<"https:", "/", "/", "localhost", "/", "x">>
NotAUrl == <<"bad", " ", "link">>
NotionKey == <<"https:", "/", "/", "notion", ".so", "/", "page">>

LinkKeys == {GoodUrl, BadUrl, HttpUrl, LocalhostUrl, NotAUrl}

\* Answers of the edge config for get("keywords"): the fetch throws, the
\* value is not an array, or it is an array whose items are strings or not.
Str(s) == [isString |-> TRUE, value |-> s]
NotStr == [isString |-> FALSE, value |-> <<>>]
KeywordAnswers ==
    { [kind |-> "throws", items |-> <<>>],
      [kind |-> "notArray", items |-> <<>>],
      [kind |-> "array", items |-> <<>>],
      [kind |-> "array", items |-> <<NotStr, Str(<<"bad">>)>>],
      [kind |-> "array", items |-> <<Str(<<>>), Str(<<"casino">>)>>] }

\* The folders of the store (read-only for processDocument).
Folders == { [id |-> <<"f", "1">>, teamId |-> <<"t", "1">>,
              path |-> <<"/", "deals">>] }
FolderPathNames == {Undefined, "deals"}

\* -------------------------------------------------------------------------
\* Payloads (documentData)
\* -------------------------------------------------------------------------

Data(name, key, storageType, contentType, sft, fileSize, numPages, adv) ==
    [ name |-> name, key |-> key, storageType |-> storageType,
      contentType |-> contentType, supportedFileType |-> sft,
      fileSize |-> fileSize, numPages |-> numPages,
      enableExcelAdvancedMode |-> adv ]

\* Resolved type and content type of the file payloads.
FileKinds ==
    { <<"pdf", <<"application/", "pdf">>>>,
      <<"slides", <<"application/", "vnd.apple.keynote">>>>,
      <<"slides", <<"application/", "x-iwork-keynote-sffkey">>>>,
      <<"slides", <<"application/", "vnd.ms-powerpoint">>>>,
      <<"docs", <<"application/", "msword">>>>,
      <<"cad", <<"image/", "vnd.dwg">>>>,
      <<"video", <<"video/", "mp4">>>>,
      <<"video", <<"video/", "quicktime">>>>,
      <<"video", None>>,
      <<"zip", <<"application/", "zip">>>>,
      <<"map", <<"application/", "vnd.google-earth.kml+xml">>>>,
      <<"email", <<"application/", "vnd.ms-outlook">>>>,
      <<"image", <<"image/", "png">>>>,
      <<"docs", <<"application/", "vnd.apple.keynote">>>>,
      <<"video", <<"application/", "octet-stream">>>>,
      <<"cad", None>> }

FilePayloads ==
    { Data(<<"file", ".", k[1]>>, PathKey, "S3_PATH", k[2], k[1], Some(10),
           None, FALSE) : k \in FileKinds }
    \cup { Data(<<"file", ".", "pdf">>, PathKey, "S3_PATH", <<"application/", "pdf">>,
                "pdf", Some(10), Some(MaxNumPages), FALSE) }

SheetPayloads ==
    { Data(<<"file", ".", "xlsx">>, PathKey, "S3_PATH", ct, "sheet", Some(10), np,
           adv) :
        <<ct, np, adv>> \in
          { <<"application/", "vnd.ms-excel">>, <<"text/", "tab-separated-values">> }
            \X ({ None } \cup { Some(n) : n \in 1..MaxNumPages }) \X BOOLEAN }

\* Payloads without supportedFileType: the type is the file extension.
ExtensionPayloads ==
    { Data(<<"report", ".", "pdf">>, PathKey, "S3_PATH", <<"application/", "pdf">>,
           Undefined, None, None, FALSE),
      Data(<<"archive", ".", "zip">>, PathKey, "S3_PATH", <<"application/", "zip">>,
           Undefined, None, None, FALSE) }

NotionPayloads ==
    { Data(<<"page">>, NotionKey, "VERCEL_BLOB", ct, "notion", None, None, FALSE) :
        ct \in {None, <<"text/", "html">>} }

LinkPayloads ==
    { Data(<<"link">>, key, "VERCEL_BLOB", None, "link", None, None, FALSE) :
        key \in LinkKeys }

Payloads ==
    FilePayloads \cup SheetPayloads \cup ExtensionPayloads
      \cup NotionPayloads \cup LinkPayloads

\* -------------------------------------------------------------------------
\* String helpers
\* -------------------------------------------------------------------------

\* String.prototype.includes
Includes(s, sub) ==
    \E i \in 1..(Len(s) - Len(sub) + 1) : SubSeq(s, i, i + Len(sub) - 1) = sub

\* getExtension(name): the part of the name after its last dot.
getExtension(name) == name[Len(name)]

\* new URL(key) succeeds: a scheme, "//" and a host.
Schemes == {"https:", "http:"}
ParsesAsUrl(key) ==
    /\ Len(key) >= 4
    /\ key[1] \in Schemes
    /\ key[2] = "/"
    /\ key[3] = "/"
    /\ key[4] # "/"

\* -------------------------------------------------------------------------
\* processDocument: the pure parts
\* -------------------------------------------------------------------------

\* const type = supportedFileType || getExtension(name)
Type(data) ==
    IF data.supportedFileType # Undefined /\ data.supportedFileType # ""
    THEN data.supportedFileType
    ELSE getExtension(data.name)

NotionError == "This Notion page isn't publically available."
BlockedError == "This URL is not allowed"
InvalidUrlError == "Invalid URL format for link document."
NoError == "no error"

\* Answers of parsePageId, getNotionPageIdFromSlug and notion.getPage.
ParseAnswers == {"id", "none", "throws"}
SlugAnswers == {"id", "null", "throws"}
PageAnswers == {"ok", "fails"}

\* The calls the Notion gate makes, in order, with their answers.
NotionCalls(parse, slug, page) ==
    <<[op |-> "parsePageId", detail |-> parse]>>
      \o (IF parse = "none"
          THEN <<[op |-> "getNotionPageIdFromSlug", detail |-> slug]>>
          ELSE <<>>)
      \o (IF parse = "id" \/ (parse = "none" /\ slug = "id")
          THEN <<[op |-> "notion.getPage", detail |-> page]>>
          ELSE <<>>)

\* Faulty variant: a slug lookup that throws is taken for a found page.
NotionGateThrows_SlugErrorPasses(parse, slug, page) ==
    \/ parse = "throws"
    \/ parse = "none" /\ slug = "null"
    \/ page = "fails"

\* Whether the try block of the Notion gate throws (so that the gate
\* rejects): parsePageId throws, no page id from either path (a slug lookup
\* that throws leaves pageId undefined), or getPage fails.
NotionGateThrows(parse, slug, page) ==
    \/ parse = "throws"
    \/ parse = "none" /\ slug # "id"
    \/ page = "fails"

\* keywords.find(keyword => typeof keyword === "string" && key.includes(keyword))
RECURSIVE Find(_, _)
Find(items, key) ==
    IF items = <<>> THEN NotStr
    ELSE IF Head(items).isString /\ Includes(key, Head(items).value)
         THEN Head(items)
         ELSE Find(Tail(items), key)

\* if (matchedKeyword): a keyword was found and it is not the empty string.
Matched(answer, key) ==
    /\ answer.kind = "array"
    /\ Len(answer.items) > 0
    /\ Find(answer.items, key).isString
    /\ Find(answer.items, key).value # <<>>

\* What the body of the inner try throws: the fetch error, the error of the
\* matched keyword, or nothing.
EdgeConfigThrown(answer, key) ==
    IF answer.kind = "throws" THEN "edge config error"
    ELSE IF Matched(answer, key) THEN BlockedError
    ELSE NoError

\* Faulty variant: the edge config check is not wrapped, its errors reach
\* the catch of the link gate.
EdgeCatch_NoCatch(thrown) == thrown

\* catch (edgeError): every error of the inner try is logged and dropped.
EdgeCatch(thrown) == NoError

\* Faulty variant: the link gate wants an https URL.
LinkTryThrown_HttpsOnly(answer, key) ==
    IF ~ParsesAsUrl(key) \/ key[1] # "https:" THEN "TypeError: Invalid URL"
    ELSE EdgeCatch(EdgeConfigThrown(answer, key))

\* What the outer try of the link gate throws.
LinkTryThrown(answer, key) ==
    IF ~ParsesAsUrl(key) THEN "TypeError: Invalid URL"
    ELSE EdgeCatch(EdgeConfigThrown(answer, key))

\* catch (error) of the link gate: the error processDocument rejects with.
LinkGateError(answer, key) ==
    LET thrown == LinkTryThrown(answer, key) IN
    IF thrown = NoError THEN NoError
    ELSE IF thrown = BlockedError THEN BlockedError
    ELSE InvalidUrlError

\* path: "/" + folderPathName
FolderPath(folderPathName) == <<"/", folderPathName>>

\* prisma.folder.findUnique({ where: { teamId_path: { teamId, path } } })
FindFolder(teamId, path) ==
    { f \in Folders : f.teamId = teamId /\ f.path = path }

\* Faulty variant: the lookup ignores the team.
ResolveFolderId_AnyTeam(throws, teamId, folderPathName) ==
    IF throws THEN None
    ELSE LET found == { f \in Folders : f.path = FolderPath(folderPathName) }
         IN IF found = {} THEN None ELSE (CHOOSE f \in found : TRUE).id

\* folderId after the lookup: null when it throws or finds nothing.
ResolveFolderId(throws, teamId, folderPathName) ==
    IF throws THEN None
    ELSE LET found == FindFolder(teamId, FolderPath(folderPathName)) IN
         IF found = {} THEN None ELSE (CHOOSE f \in found : TRUE).id

\* Faulty variant: the content type is not looked at.
isDownloadOnly_TypeOnly(type, contentType) ==
    \/ type = "zip"
    \/ type = "map"
    \/ type = "email"

\* const isDownloadOnly = ...
isDownloadOnly(type, contentType) ==
    \/ type = "zip"
    \/ type = "map"
    \/ type = "email"
    \/ contentType = <<"text/", "tab-separated-values">>

\* -------------------------------------------------------------------------
\* The persistent store: prisma.document.create with nested writes
\* -------------------------------------------------------------------------

\* The Document row of prisma.document.create.
NewDocumentRow(id, a, folder) ==
    [ id |-> id,
      name |-> a.documentData.name,
      numPages |-> a.documentData.numPages,
      file |-> a.documentData.key,
      originalFile |-> a.documentData.key,
      contentType |-> a.documentData.contentType,
      type |-> Type(a.documentData),
      storageType |-> a.documentData.storageType,
      ownerId |-> a.userId,
      teamId |-> a.teamId,
      advancedExcelEnabled |-> a.documentData.enableExcelAdvancedMode,
      downloadOnly |-> isDownloadOnly(Type(a.documentData),
                                      a.documentData.contentType),
      folderId |-> folder,
      isExternalUpload |-> a.isExternalUpload ]

\* Faulty variant: isPrimary is left to its default.
NewVersionRows_NotPrimary(id, documentId, a) ==
    { [ id |-> id,
        documentId |-> documentId,
        file |-> a.documentData.key,
        originalFile |-> a.documentData.key,
        contentType |-> a.documentData.contentType,
        type |-> Type(a.documentData),
        storageType |-> a.documentData.storageType,
        numPages |-> a.documentData.numPages,
        isPrimary |-> FALSE,
        versionNumber |-> 1,
        fileSize |-> a.documentData.fileSize ] }

\* versions: { create: { ... } }
NewVersionRows(id, documentId, a) ==
    { [ id |-> id,
        documentId |-> documentId,
        file |-> a.documentData.key,
        originalFile |-> a.documentData.key,
        contentType |-> a.documentData.contentType,
        type |-> Type(a.documentData),
        storageType |-> a.documentData.storageType,
        numPages |-> a.documentData.numPages,
        isPrimary |-> TRUE,
        versionNumber |-> 1,
        fileSize |-> a.documentData.fileSize ] }

\* Faulty variant: the link is created whether requested or not.
NewLinkRows_Always(id, documentId, a) ==
    { [ id |-> id, documentId |-> documentId, teamId |-> a.teamId ] }

\* ...(createLink && { links: { create: { teamId } } })
NewLinkRows(id, documentId, a) ==
    IF a.createLink
    THEN { [ id |-> id, documentId |-> documentId, teamId |-> a.teamId ] }
    ELSE {}

Tables(d, v, l) == [documents |-> d, versions |-> v, links |-> l]

\* Faulty variant: the rows are written one by one, and a failure after the
\* document row leaves that row behind.
DocumentCreate_NotAtomic(t, docRow, versionRows, linkRows, succeeds) ==
    IF succeeds
    THEN Tables(t.documents \cup {docRow}, t.versions \cup versionRows,
                t.links \cup linkRows)
    ELSE Tables(t.documents \cup {docRow}, t.versions, t.links)

\* The nested create is one transaction: all rows are written, or none is.
DocumentCreate(t, docRow, versionRows, linkRows, succeeds) ==
    IF succeeds
    THEN Tables(t.documents \cup {docRow}, t.versions \cup versionRows,
                t.links \cup linkRows)
    ELSE t

RECURSIVE SetToSeq(_)
SetToSeq(S) ==
    IF S = {} THEN <<>>
    ELSE LET x == CHOOSE y \in S : TRUE IN <<x>> \o SetToSeq(S \ {x})

\* include: { links: true, versions: true }
Included(t, id) ==
    LET row == CHOOSE d \in t.documents : d.id = id IN
    [ row |-> row,
      id |-> id,
      versions |-> SetToSeq({ v \in t.versions : v.documentId = id }),
      links |-> SetToSeq({ l \in t.links : l.documentId = id }) ]

NoDocument == [row |-> None, id |-> None, versions |-> <<>>, links |-> <<>>]

\* The arguments of an earlier call, and the store after n such calls.
EarlierArgs ==
    [ documentData |-> Data(<<"old", ".", "pdf">>, PathKey, "S3_PATH",
                            <<"application/", "pdf">>, "pdf", Some(10), None, FALSE),
      teamId |-> <<"t", "1">>, teamPlan |-> "free", userId |-> UserId,
      folderPathName |-> Undefined, createLink |-> TRUE,
      isExternalUpload |-> FALSE ]

RECURSIVE StoreAfter(_)
StoreAfter(n) ==
    IF n = 0 THEN Tables({}, {}, {})
    ELSE DocumentCreate(StoreAfter(n - 1),
                        NewDocumentRow(DocId(n), EarlierArgs, None),
                        NewVersionRows(VersionId(n), DocId(n), EarlierArgs),
                        NewLinkRows(LinkId(n), DocId(n), EarlierArgs), TRUE)

\* -------------------------------------------------------------------------
\* State
\* -------------------------------------------------------------------------

VARIABLES
    pc,         \* position of the call in processDocument
    args,       \* the parameters of the call
    store,      \* the tables documents, versions, links
    folderId,   \* let folderId
    document,   \* const document, the record prisma.document.create returned
    result,     \* what the call returned or rejected with
    calls,      \* the external calls made so far, in order
    pending     \* the webhook promises Promise.all waits for

\* The state of the two other components of the module: the validators of
\* src/lib/zod/url-validation.ts and the progress endpoint of
\* src/pages/api/progress-token.ts.  Each specification runs one component
\* and leaves the variables of the others alone.
VARIABLES
    subject,    \* the value handed to a validator or schema
    verdict,    \* what the validator or schema answered
    kv,         \* the key-value store the progress endpoint reads
    request,    \* the request the progress endpoint is handling
    hpc,        \* position of the progress handler
    responses   \* the responses the handler has sent, in order

\* The state of the upload zone of src/unnamed/part_002: one drop of files
\* with its per-file upload tasks, and the cached dataroom folder.
VARIABLES
    uploads,        \* the UploadState entries (setUploads)
    rejectedFiles,  \* the RejectedFile entries (setRejectedFiles)
    drop,           \* the drop onDrop handles, and the position of onDrop
    tasks,          \* the per-file upload tasks (uploadPromises)
    successCalls,   \* the arguments of the calls of onUploadSuccess
    dataroomFolderPathRef,             \* dataroomFolderPathRef.current
    dataroomFolderCreationPromiseRef,  \* dataroomFolderCreationPromiseRef.current
    creations,      \* the creation promises made so far
    callers,        \* what each call of getOrCreateDataroomFolder returned
    props           \* the props of the component and the number of resets

processVars == <<pc, args, store, folderId, document, result, calls, pending>>
validatorVars == <<subject, verdict>>
progressVars == <<kv, request, hpc, responses>>
uploadVars == <<uploads, rejectedFiles, drop, tasks, successCalls>>
folderVars == <<dataroomFolderPathRef, dataroomFolderCreationPromiseRef,
                creations, callers, props>>

vars == <<processVars, validatorVars, progressVars, uploadVars, folderVars>>

\* The upload zone is not mounted.
UploadOff ==
    /\ uploads = None /\ rejectedFiles = None /\ drop = None /\ tasks = None
    /\ successCalls = None
FolderOff ==
    /\ dataroomFolderPathRef = None /\ dataroomFolderCreationPromiseRef = None
    /\ creations = None /\ callers = None /\ props = None

NoArgs == [documentData |-> Data(<<"">>, <<>>, "", None, Undefined, None,
                                 None, FALSE),
           teamId |-> None, teamPlan |-> "", userId |-> None,
           folderPathName |-> Undefined, createLink |-> FALSE,
           isExternalUpload |-> FALSE]

Pending == [status |-> "pending", error |-> NoError, value |-> NoDocument]
Rejected(e) == [status |-> "rejected", error |-> e, value |-> NoDocument]
Returned(d) == [status |-> "returned", error |-> NoError, value |-> d]

Call(op, detail) == [op |-> op, detail |-> detail]

Init ==
    /\ pc = "idle"
    /\ args = NoArgs
    /\ store \in { StoreAfter(n) : n \in 0..MaxExisting }
    /\ folderId = None
    /\ document = NoDocument
    /\ result = Pending
    /\ calls = <<>>
    /\ pending = {}
    /\ subject = None /\ verdict = None
    /\ kv = None /\ request = None /\ hpc = None /\ responses = None
    /\ UploadOff /\ FolderOff

type == Type(args.documentData)
contentType == args.documentData.contentType
key == args.documentData.key

\* Faulty variant: the gates are skipped.
FirstPhase_SkipGates(t) == "folder"

\* The gate a call of the given type enters first.
FirstPhase(t) ==
    IF t = "notion" THEN "notion" ELSE IF t = "link" THEN "link" ELSE "folder"

\* processDocument is called.
Invoke ==
    /\ pc = "idle"
    /\ UNCHANGED <<validatorVars, progressVars, uploadVars, folderVars>>
    /\ \E data \in Payloads, team \in TeamIds, plan \in TeamPlans,
          folder \in FolderPathNames, link \in BOOLEAN, ext \in BOOLEAN :
         /\ args' = [ documentData |-> data, teamId |-> team,
                      teamPlan |-> plan, userId |-> UserId,
                      folderPathName |-> folder, createLink |-> link,
                      isExternalUpload |-> ext ]
         /\ pc' = FirstPhase(Type(data))
    /\ UNCHANGED <<store, folderId, document, result, calls, pending>>

\* if (type === "notion") { ... }
NotionGate ==
    /\ pc = "notion"
    /\ UNCHANGED <<validatorVars, progressVars, uploadVars, folderVars>>
    /\ \E parse \in ParseAnswers, slug \in SlugAnswers, page \in PageAnswers :
         /\ calls' = calls \o NotionCalls(parse, slug, page)
         /\ IF NotionGateThrows(parse, slug, page)
            THEN /\ pc' = "rejected"
                 /\ result' = Rejected(NotionError)
            ELSE /\ pc' = "folder"
                 /\ UNCHANGED result
    /\ UNCHANGED <<args, store, folderId, document, pending>>

\* if (type === "link") { ... }
LinkGate ==
    /\ pc = "link"
    /\ UNCHANGED <<validatorVars, progressVars, uploadVars, folderVars>>
    /\ \E answer \in KeywordAnswers :
         /\ calls' = calls \o <<Call("new URL", key)>>
              \o (IF ParsesAsUrl(key) THEN <<Call("get", answer)>> ELSE <<>>)
              \o (IF ParsesAsUrl(key) /\ Matched(answer, key)
                  THEN <<Call("log", Find(answer.items, key).value)>>
                  ELSE <<>>)
         /\ IF LinkGateError(answer, key) # NoError
            THEN /\ pc' = "rejected"
                 /\ result' = Rejected(LinkGateError(answer, key))
            ELSE /\ pc' = "folder"
                 /\ UNCHANGED result
    /\ UNCHANGED <<args, store, folderId, document, pending>>

\* 1. Resolve Folder (Safe)
ResolveFolder ==
    /\ pc = "folder"
    /\ UNCHANGED <<validatorVars, progressVars, uploadVars, folderVars>>
    /\ \E throws \in BOOLEAN :
         /\ folderId' = ResolveFolderId(throws, args.teamId, args.folderPathName)
         /\ calls' = Append(calls, Call("folder.findUnique",
                                        [throws |-> throws]))
    /\ pc' = "commit"
    /\ UNCHANGED <<args, store, document, result, pending>>

\* The number of the next row the store creates.
NextRow == Cardinality(store.documents) + 1

\* Faulty variant: a failed write is swallowed.
AfterCommit_Swallowed(succeeds) == "dispatch"

\* await prisma.document.create(...) is outside every try block: its
\* failure rejects the call, its success leads to the background jobs.
AfterCommit(succeeds) == IF succeeds THEN "dispatch" ELSE "rejected"

\* 2. CRITICAL STEP: Save to Database
Commit ==
    /\ pc = "commit"
    /\ UNCHANGED <<validatorVars, progressVars, uploadVars, folderVars>>
    /\ \E succeeds \in BOOLEAN :
         /\ store' = DocumentCreate(store,
                NewDocumentRow(DocId(NextRow), args, folderId),
                NewVersionRows(VersionId(NextRow), DocId(NextRow), args),
                NewLinkRows(LinkId(NextRow), DocId(NextRow), args),
                succeeds)
         /\ document' = IF succeeds THEN Included(store', DocId(NextRow))
                        ELSE document
         /\ calls' = Append(calls, Call("document.create",
                [succeeds |-> succeeds, returned |-> document']))
         /\ pc' = AfterCommit(succeeds)
         /\ result' = IF pc' = "rejected"
                      THEN Rejected("document.create failed") ELSE result
    /\ UNCHANGED <<args, folderId, pending>>

\* -------------------------------------------------------------------------
\* 3. Background jobs
\* -------------------------------------------------------------------------

\* conversionQueue(teamPlan): the queue depends on the plan alone.
conversionQueue(plan) == <<"conversion-", plan>>

\* Faulty variant: an absent content type passes (no optional chaining).
StartsWithVideo_AbsentPasses(ct) == ct = None \/ ct[1] = "video/"

\* contentType?.startsWith("video/")
StartsWithVideo(ct) == ct # None /\ ct[1] = "video/"

KeynoteTypes == { <<"application/", "vnd.apple.keynote">>,
                  <<"application/", "x-iwork-keynote-sffkey">> }

\* key.split("/")[1]
RECURSIVE Split(_)
Split(s) ==
    IF \A i \in 1..Len(s) : s[i] # "/" THEN <<s>>
    ELSE LET i == CHOOSE j \in 1..Len(s) :
                    s[j] = "/" /\ \A k \in 1..(j - 1) : s[k] # "/"
         IN <<SubSeq(s, 1, i - 1)>> \o Split(SubSeq(s, i + 1, Len(s)))

\* Faulty variant: the key is built from the document id.
taskOptions_KeyOfDocument(a, doc) ==
    [ idempotencyKey |-> a.teamId \o <<"-">> \o doc.id,
      tags |-> << <<"team_">> \o a.teamId,
                  <<"document_">> \o doc.id,
                  <<"version:">> \o doc.versions[1].id >>,
      queue |-> conversionQueue(a.teamPlan),
      concurrencyKey |-> a.teamId ]

\* Faulty variant: the document tag carries the version id.
taskOptions_VersionInDocumentTag(a, doc) ==
    [ idempotencyKey |-> a.teamId \o <<"-">> \o doc.versions[1].id,
      tags |-> << <<"team_">> \o a.teamId,
                  <<"document_">> \o doc.versions[1].id,
                  <<"version:">> \o doc.versions[1].id >>,
      queue |-> conversionQueue(a.teamPlan),
      concurrencyKey |-> a.teamId ]

\* const taskOptions = { ... }
taskOptions(a, doc) ==
    [ idempotencyKey |-> a.teamId \o <<"-">> \o doc.versions[1].id,
      tags |-> << <<"team_">> \o a.teamId,
                  <<"document_">> \o doc.id,
                  <<"version:">> \o doc.versions[1].id >>,
      queue |-> conversionQueue(a.teamPlan),
      concurrencyKey |-> a.teamId ]

\* Faulty variant: the suffix is not appended.
WithSuffix_Dropped(options, suffix) == options

\* { ...taskOptions, idempotencyKey: `${taskOptions.idempotencyKey}-<suffix>` }
WithSuffix(options, suffix) ==
    [options EXCEPT !.idempotencyKey = @ \o <<suffix>>]

\* Faulty variant: the version id is passed as the document id.
ConversionPayload_VersionAsDocument(a, doc) ==
    [ documentId |-> doc.versions[1].id,
      documentVersionId |-> doc.versions[1].id,
      teamId |-> a.teamId ]

\* The payload of the Keynote, Office, CAD and PDF tasks.
ConversionPayload(a, doc) ==
    [ documentId |-> doc.id,
      documentVersionId |-> doc.versions[1].id,
      teamId |-> a.teamId ]

VideoPayload(a, doc) ==
    [ videoUrl |-> a.documentData.key,
      teamId |-> a.teamId,
      docId |-> IF Len(Split(a.documentData.key)) >= 2
                THEN Split(a.documentData.key)[2] ELSE None,
      documentVersionId |-> doc.versions[1].id,
      fileSize |-> IF a.documentData.fileSize = None
                   THEN 0 ELSE a.documentData.fileSize[1] ]

Trigger(task, payload, options) ==
    [task |-> task, payload |-> payload, options |-> options]

\* Faulty variant: an Office document is also sent to the PDF task.
Tasks_PdfAfterDocs(a, doc) ==
    LET t == Type(a.documentData)
        ct == a.documentData.contentType
        o == taskOptions(a, doc)
    IN (IF t = "slides" /\ ct \in KeynoteTypes
        THEN <<Trigger("convertKeynoteToPdfTask", ConversionPayload(a, doc),
                       WithSuffix(o, "-keynote"))>>
        ELSE IF t = "docs" \/ t = "slides"
        THEN <<Trigger("convertFilesToPdfTask", ConversionPayload(a, doc),
                       WithSuffix(o, "-docs"))>>
        ELSE <<>>)
       \o (IF t = "cad"
           THEN <<Trigger("convertCadToPdfTask", ConversionPayload(a, doc),
                          WithSuffix(o, "-cad"))>>
           ELSE <<>>)
       \o (IF t = "video" /\ ct # <<"video/", "mp4">> /\ StartsWithVideo(ct)
           THEN <<Trigger("processVideo", VideoPayload(a, doc), o)>>
           ELSE <<>>)
       \o (IF t = "pdf" \/ t = "docs"
           THEN <<Trigger("convertPdfToImageRoute", ConversionPayload(a, doc),
                          o)>>
           ELSE <<>>)

\* The triggers of the try block in source order, were none to fail.
Tasks(a, doc) ==
    LET t == Type(a.documentData)
        ct == a.documentData.contentType
        o == taskOptions(a, doc)
    IN (IF t = "slides" /\ ct \in KeynoteTypes
        THEN <<Trigger("convertKeynoteToPdfTask", ConversionPayload(a, doc),
                       WithSuffix(o, "-keynote"))>>
        ELSE IF t = "docs" \/ t = "slides"
        THEN <<Trigger("convertFilesToPdfTask", ConversionPayload(a, doc),
                       WithSuffix(o, "-docs"))>>
        ELSE <<>>)
       \o (IF t = "cad"
           THEN <<Trigger("convertCadToPdfTask", ConversionPayload(a, doc),
                          WithSuffix(o, "-cad"))>>
           ELSE <<>>)
       \o (IF t = "video" /\ ct # <<"video/", "mp4">> /\ StartsWithVideo(ct)
           THEN <<Trigger("processVideo", VideoPayload(a, doc), o)>>
           ELSE <<>>)
       \o (IF t = "pdf"
           THEN <<Trigger("convertPdfToImageRoute", ConversionPayload(a, doc),
                          o)>>
           ELSE <<>>)

\* Faulty variant: the background jobs are not wrapped, a failed trigger
\* rejects the call.
DispatchRethrows_NoCatch(threw) == threw

\* catch (error) of the background jobs: logged, not thrown.
DispatchRethrows(threw) == FALSE

\* Faulty variant: the flag is not looked at.
AdvancedMode_AnySheet(a) == Type(a.documentData) = "sheet"

\* if (type === "sheet" && enableExcelAdvancedMode)
AdvancedMode(a) ==
    Type(a.documentData) = "sheet" /\ a.documentData.enableExcelAdvancedMode

AfterDispatch(a) == IF AdvancedMode(a) THEN "advCopy" ELSE "webhooks"

\* The triggers are awaited one after the other; the first that fails ends
\* the try block.
Dispatch ==
    /\ pc = "dispatch"
    /\ UNCHANGED <<validatorVars, progressVars, uploadVars, folderVars>>
    /\ \E n \in 0..Len(Tasks(args, document)), failed \in BOOLEAN :
         /\ failed => n >= 1
         /\ ~failed => n = Len(Tasks(args, document))
         /\ calls' = calls \o
              [ i \in 1..n |->
                  Call("trigger",
                       [ trigger |-> Tasks(args, document)[i],
                         failed |-> failed /\ i = n ]) ]
         /\ IF DispatchRethrows(failed)
            THEN /\ pc' = "rejected"
                 /\ result' = Rejected("trigger failed")
            ELSE /\ pc' = AfterDispatch(args)
                 /\ UNCHANGED result
    /\ UNCHANGED <<args, store, folderId, document, pending>>

\* -------------------------------------------------------------------------
\* 4. Advanced Excel mode
\* -------------------------------------------------------------------------

\* catch (e) of the advanced mode: logged, not thrown.
AdvancedRethrows(threw) == FALSE

AdvancedFailed ==
    IF AdvancedRethrows(TRUE)
    THEN /\ pc' = "rejected"
         /\ result' = Rejected("advanced mode failed")
    ELSE /\ pc' = "webhooks"
         /\ UNCHANGED result

\* await copyFileToBucketServer(...)
AdvCopy ==
    /\ pc = "advCopy"
    /\ UNCHANGED <<validatorVars, progressVars, uploadVars, folderVars>>
    /\ \E ok \in BOOLEAN :
         /\ calls' = Append(calls, Call("copyFileToBucketServer",
                [ filePath |-> document.versions[1].file,
                  storageType |-> document.versions[1].storageType,
                  teamId |-> args.teamId, ok |-> ok ]))
         /\ IF ok THEN pc' = "advUpdate" /\ UNCHANGED result
                  ELSE AdvancedFailed
    /\ UNCHANGED <<args, store, folderId, document, pending>>

\* Faulty variant: the update also numbers the version anew.
VersionUpdate_Renumbers(t, id) ==
    [t EXCEPT !.versions =
        { IF v.id = id
          THEN [v EXCEPT !.numPages = Some(1), !.versionNumber = @ + 1]
          ELSE v : v \in @ }]

\* data: { numPages: 1 } on the version with the given id.
VersionUpdate(t, id) ==
    [t EXCEPT !.versions =
        { IF v.id = id THEN [v EXCEPT !.numPages = Some(1)] ELSE v : v \in @ }]

\* Faulty variant: the record is read again after the update.
DocumentAfterUpdate_Refreshed(doc, t) == Included(t, doc.id)

\* The update writes the store; the record the call holds is not refreshed.
DocumentAfterUpdate(doc, t) == doc

\* await prisma.documentVersion.update(...)
AdvUpdate ==
    /\ pc = "advUpdate"
    /\ UNCHANGED <<validatorVars, progressVars, uploadVars, folderVars>>
    /\ \E ok \in BOOLEAN :
         /\ calls' = Append(calls, Call("documentVersion.update",
                [ id |-> document.versions[1].id, ok |-> ok ]))
         /\ IF ok
            THEN /\ store' = VersionUpdate(store, document.versions[1].id)
                 /\ document' = DocumentAfterUpdate(document, store')
                 /\ pc' = "advRevalidate"
                 /\ UNCHANGED result
            ELSE /\ AdvancedFailed
                 /\ UNCHANGED <<store, document>>
    /\ UNCHANGED <<args, folderId, pending>>

\* if (NEXTAUTH_URL && REVALIDATE_TOKEN) await fetch(...).catch(...)
\* fetch resolves, rejects (handled by .catch) or throws (handled by the
\* catch of the block).
AdvRevalidate ==
    /\ pc = "advRevalidate"
    /\ UNCHANGED <<validatorVars, progressVars, uploadVars, folderVars>>
    /\ \E configured \in BOOLEAN, outcome \in {"ok", "rejects", "throws"} :
         /\ calls' = calls \o
              (IF configured
               THEN <<Call("fetch revalidate",
                           [ documentId |-> document.id,
                             outcome |-> outcome ])>>
               ELSE <<>>)
         /\ IF configured /\ outcome = "throws"
            THEN AdvancedFailed
            ELSE pc' = "webhooks" /\ UNCHANGED result
    /\ UNCHANGED <<args, store, folderId, document, pending>>

\* -------------------------------------------------------------------------
\* 5. Webhooks
\* -------------------------------------------------------------------------

DocumentWebhook(a, doc) ==
    [ webhook |-> "sendDocumentCreatedWebhook",
      teamId |-> a.teamId,
      data |-> [ document_id |-> doc.id, link_id |-> None ] ]

\* link_id: document.links[0]?.id
LinkWebhook(a, doc) ==
    [ webhook |-> "sendLinkCreatedWebhook",
      teamId |-> a.teamId,
      data |-> [ document_id |-> doc.id,
                 link_id |-> IF Len(doc.links) >= 1
                             THEN doc.links[1].id ELSE None ] ]

\* Faulty variant: the document webhook is sent for external uploads too.
Webhooks_ExternalToo(a, doc) ==
    <<DocumentWebhook(a, doc)>>
      \o (IF a.createLink THEN <<LinkWebhook(a, doc)>> ELSE <<>>)

\* The webhooks the array literal of Promise.all calls, in source order.
Webhooks(a, doc) ==
    (IF ~a.isExternalUpload THEN <<DocumentWebhook(a, doc)>> ELSE <<>>)
      \o (IF a.createLink THEN <<LinkWebhook(a, doc)>> ELSE <<>>)

\* catch (error) around Promise.all: logged, not thrown.
WebhookRethrows(threw) == FALSE

\* Faulty variant: the promises have no .catch of their own.
WebhookCatch_None(outcome) == outcome

\* .catch(e => console.error(...)) on each webhook promise: a rejection
\* becomes a fulfilled promise.
WebhookCatch(outcome) == "fulfilled"

\* Whether a call of a webhook sender can throw before it returns its
\* promise: the senders are asynchronous operations, a failed delivery is a
\* rejection of the promise.
WebhookCallThrows == {FALSE}

\* The array literal is evaluated: each webhook function is called in turn
\* and returns a promise; a call that threw would end the try block at once.
StartWebhooks ==
    /\ pc = "webhooks"
    /\ UNCHANGED <<validatorVars, progressVars, uploadVars, folderVars>>
    /\ \E n \in 0..Len(Webhooks(args, document)), threw \in WebhookCallThrows :
         /\ threw => n >= 1
         /\ ~threw => n = Len(Webhooks(args, document))
         /\ calls' = calls \o
              [ i \in 1..n |->
                  Call("webhook", [ sent |-> Webhooks(args, document)[i],
                                    threw |-> threw /\ i = n ]) ]
         /\ IF threw
            THEN /\ pending' = {}
                 /\ IF WebhookRethrows(TRUE)
                    THEN pc' = "rejected" /\ result' = Rejected("webhook failed")
                    ELSE pc' = "return" /\ UNCHANGED result
            ELSE /\ pending' = { Webhooks(args, document)[i].webhook :
                                   i \in 1..n }
                 /\ pc' = "awaitWebhooks"
                 /\ UNCHANGED result
    /\ UNCHANGED <<args, store, folderId, document>>

\* One of the webhook promises settles.  A rejection that its .catch let
\* through would reject Promise.all at once and end the try block, the
\* other promise being left unawaited.
SettleWebhook ==
    /\ pc = "awaitWebhooks"
    /\ UNCHANGED <<validatorVars, progressVars, uploadVars, folderVars>>
    /\ \E w \in pending, outcome \in {"fulfilled", "rejected"} :
         /\ pending' = pending \ {w}
         /\ calls' = Append(calls, Call("webhook settled",
                                        [ webhook |-> w, outcome |-> outcome ]))
         /\ IF WebhookCatch(outcome) = "rejected"
            THEN IF WebhookRethrows(TRUE)
                 THEN pc' = "rejected" /\ result' = Rejected("webhook failed")
                 ELSE pc' = "return" /\ UNCHANGED result
            ELSE UNCHANGED <<pc, result>>
    /\ UNCHANGED <<args, store, folderId, document>>

\* await Promise.all([...]) resumes when every promise has settled.
AwaitWebhooks ==
    /\ pc = "awaitWebhooks"
    /\ UNCHANGED <<validatorVars, progressVars, uploadVars, folderVars>>
    /\ pending = {}
    /\ pc' = "return"
    /\ UNCHANGED <<args, store, folderId, document, result, calls, pending>>

\* return document
Return ==
    /\ pc = "return"
    /\ UNCHANGED <<validatorVars, progressVars, uploadVars, folderVars>>
    /\ pc' = "done"
    /\ result' = Returned(document)
    /\ UNCHANGED <<args, store, folderId, document, calls, pending>>

Next ==
    \/ Invoke
    \/ NotionGate
    \/ LinkGate
    \/ ResolveFolder
    \/ Commit
    \/ Dispatch
    \/ AdvCopy
    \/ AdvUpdate
    \/ AdvRevalidate
    \/ StartWebhooks
    \/ SettleWebhook
    \/ AwaitWebhooks
    \/ Return

Spec == Init /\ [][Next]_vars

\* -------------------------------------------------------------------------
\* Properties
\* -------------------------------------------------------------------------

\* The stores a call can start from; a store in this set holds no row of
\* the current call.
InitialStores == { StoreAfter(n) : n \in 0..MaxExisting }

\* The positions of the calls of the given operation in the trace.
CallsOf(op) == { i \in 1..Len(calls) : calls[i].op = op }

\* The commit of this call has succeeded.
Committed == \E i \in CallsOf("document.create") : calls[i].detail.succeeds

\* The record the successful commit produced.
CommitRecord ==
    calls[CHOOSE i \in CallsOf("document.create") : calls[i].detail.succeeds]
      .detail.returned

FailedTrigger == \E i \in CallsOf("trigger") : calls[i].detail.failed
RejectedWebhooks ==
    { calls[i].detail.webhook :
        i \in { j \in CallsOf("webhook settled") :
                  calls[j].detail.outcome = "rejected" } }

\* C1: once the document-creating write has succeeded, processDocument never
\* rejects, always has a next step until it returns, and returns the created
\* document, whatever the trigger, the file copy, the page-count update, the
\* revalidation fetch and the two webhooks do.
C1_CommittedCallReturns ==
    Committed =>
        /\ pc # "rejected"
        /\ result.status # "rejected"
        /\ pc # "done" => ENABLED Next
        /\ pc = "done" =>
             /\ result = Returned(CommitRecord)
             /\ \E d \in store.documents : d.id = result.value.id

C1_Witness ==
    /\ pc = "done"
    /\ FailedTrigger
    /\ RejectedWebhooks =
         {"sendDocumentCreatedWebhook", "sendLinkCreatedWebhook"}

\* The key contains a keyword (a non-empty string item) of the fetched list.
KeyOnBlocklist ==
    \E i \in CallsOf("get") :
        /\ calls[i].detail.kind = "array"
        /\ \E k \in 1..Len(calls[i].detail.items) :
             /\ calls[i].detail.items[k].isString
             /\ calls[i].detail.items[k].value # <<>>
             /\ Includes(key, calls[i].detail.items[k].value)

\* C2: a link whose key contains a keyword of the fetched blocklist is
\* rejected with "This URL is not allowed" and nothing is created.
C2_BlocklistedLinkRejected ==
    (type = "link" /\ KeyOnBlocklist) =>
        /\ pc = "rejected"
        /\ result = Rejected(BlockedError)
        /\ store \in InitialStores

\* No page id was obtained by parsing or by the slug lookup.
NoPageId ==
    /\ CallsOf("parsePageId") # {}
    /\ \A i \in CallsOf("parsePageId") \cup CallsOf("getNotionPageIdFromSlug") :
         calls[i].detail # "id"
PageFetchFailed ==
    \E i \in CallsOf("notion.getPage") : calls[i].detail = "fails"
NotionOps == {"parsePageId", "getNotionPageIdFromSlug", "notion.getPage"}

\* C3: a notion payload is rejected with the not-publicly-available error,
\* and nothing is created, when no page id is obtained (a throwing slug
\* lookup counts as none) or the page fetch fails; for any other type the
\* Notion gate makes no call.
C3_NotionGate ==
    /\ (pc # "idle" /\ type = "notion" /\ (NoPageId \/ PageFetchFailed)) =>
         /\ pc = "rejected"
         /\ result = Rejected(NotionError)
         /\ store \in InitialStores
    /\ (pc # "idle" /\ type # "notion") =>
         \A i \in 1..Len(calls) : calls[i].op \notin NotionOps

C3_Witness ==
    /\ pc = "rejected"
    /\ \E i \in CallsOf("getNotionPageIdFromSlug") : calls[i].detail = "throws"

\* The version rows of the store that belong to the returned document.
VersionsOf(id) == { v \in store.versions : v.documentId = id }
LinksOf(id) == { l \in store.links : l.documentId = id }

\* C4: after a successful call the created document has exactly one version,
\* with versionNumber 1 and isPrimary true, in the store and in the returned
\* record.
C4_OnePrimaryVersion ==
    pc = "done" =>
        /\ Cardinality(VersionsOf(result.value.id)) = 1
        /\ \A v \in VersionsOf(result.value.id) :
             v.versionNumber = 1 /\ v.isPrimary
        /\ Len(result.value.versions) = 1
        /\ result.value.versions[1].versionNumber = 1
        /\ result.value.versions[1].isPrimary

C4_Witness ==
    /\ pc = "done"
    /\ Cardinality(store.documents) = MaxExisting + 1

\* C5: the store never holds a partially created document: every document
\* has its first version, every version and link belongs to a document, the
\* document of this call has its link exactly when one was requested, and a
\* failed write leaves the store as it was.
C5_NoPartialDocument ==
    /\ \A d \in store.documents : VersionsOf(d.id) # {}
    /\ \A v \in store.versions : \E d \in store.documents : d.id = v.documentId
    /\ \A l \in store.links : \E d \in store.documents : d.id = l.documentId
    /\ Committed => (LinksOf(document.id) # {} <=> args.createLink)
    /\ ~Committed => store \in InitialStores

C5_Witness ==
    /\ pc = "rejected"
    /\ result = Rejected("document.create failed")
    /\ args.createLink

\* C6: the returned document has exactly one link, of the requesting team,
\* when createLink is true, and no link when it is false.
C6_ReturnedLinks ==
    pc = "done" =>
        IF args.createLink
        THEN /\ Len(result.value.links) = 1
             /\ result.value.links[1].teamId = args.teamId
             /\ result.value.links[1].documentId = result.value.id
        ELSE result.value.links = <<>>

C6_Witness ==
    /\ pc = "done"
    /\ args.createLink
    /\ args.teamId = <<"t", "2">>
    /\ Len(result.value.links) = 1

PageCountUpdated ==
    \E i \in CallsOf("documentVersion.update") : calls[i].detail.ok

\* C7: the returned value is a document and is the record the commit
\* produced, whatever the folder lookup, the triggers, the advanced mode and
\* the webhooks did; after a page-count back-fill it still carries the page
\* count of the commit while the store carries 1.
C7_ReturnedIsCommitRecord ==
    pc = "done" =>
        /\ result.status = "returned"
        /\ result.value # NoDocument
        /\ result.value = CommitRecord
        /\ PageCountUpdated =>
             /\ result.value.versions[1].numPages = args.documentData.numPages
             /\ \A v \in VersionsOf(result.value.id) : v.numPages = Some(1)

C7_Witness ==
    /\ pc = "done"
    /\ PageCountUpdated
    /\ args.documentData.numPages = Some(MaxNumPages)

\* The folder of the team with the path "/" + folderPathName, if any.
MatchingFolders ==
    { f \in Folders :
        f.teamId = args.teamId /\ f.path = <<"/", args.folderPathName>> }

\* C8: folder resolution never rejects: after the lookup the call is at the
\* commit or beyond, with a null folder id when the lookup threw or found
\* nothing and with the folder's id otherwise, and the committed document
\* carries that folder id.
C8_FolderResolution ==
    \A i \in CallsOf("folder.findUnique") :
        /\ pc \notin {"idle", "notion", "link", "folder"}
        /\ pc = "rejected" => result = Rejected("document.create failed")
        /\ IF calls[i].detail.throws \/ MatchingFolders = {}
           THEN folderId = None
           ELSE \E f \in MatchingFolders : folderId = f.id
        /\ Committed =>
             /\ document.row.folderId = folderId
             /\ \E d \in store.documents :
                  d.id = document.id /\ d.folderId = folderId

C8_Witness ==
    /\ pc = "done"
    /\ \E i \in CallsOf("folder.findUnique") : calls[i].detail.throws
    /\ args.folderPathName = "deals"
    /\ args.teamId = <<"t", "1">>

BlocklistUnavailable ==
    \E i \in CallsOf("get") : calls[i].detail.kind = "throws"

\* C9: for a link with a parseable URL, a keyword fetch that throws is no
\* match: the gate lets the call through to the commit, and the call
\* rejects only if the commit itself fails and otherwise creates the
\* document.
C9_BlocklistFailureIsNoMatch ==
    (type = "link" /\ ParsesAsUrl(key) /\ BlocklistUnavailable) =>
        /\ pc \notin {"idle", "link"}
        /\ pc = "rejected" => result = Rejected("document.create failed")
        /\ pc \notin {"folder", "commit", "rejected"} =>
             \E d \in store.documents : d.id = document.id /\ d.file = key

C9_Witness ==
    /\ pc = "done"
    /\ type = "link"
    /\ BlocklistUnavailable

\* The calls processDocument makes after the commit.
PostCommitOps ==
    { "trigger", "copyFileToBucketServer", "documentVersion.update",
      "fetch revalidate", "webhook", "webhook settled" }

\* C10: when the commit write fails the call rejects with that failure and
\* triggers no task, runs no advanced-mode step and sends no webhook.
C10_FailedCommitRejects ==
    (\E i \in CallsOf("document.create") : ~calls[i].detail.succeeds) =>
        /\ pc = "rejected"
        /\ result = Rejected("document.create failed")
        /\ \A i \in 1..Len(calls) : calls[i].op \notin PostCommitOps

C10_Witness ==
    /\ pc = "rejected"
    /\ result = Rejected("document.create failed")
    /\ args.documentData.enableExcelAdvancedMode
    /\ type = "sheet"

\* The gate of the call's type has run before position i and let it pass.
GatePassedBefore(i) ==
    /\ type = "notion" =>
         \E j \in 1..(i - 1) :
             calls[j].op = "notion.getPage" /\ calls[j].detail = "ok"
    /\ type = "link" =>
         \E j \in 1..(i - 1) : calls[j].op = "new URL" /\ ParsesAsUrl(key)

GateErrors == {NotionError, BlockedError, InvalidUrlError}

\* C11: every trigger, advanced-mode step and webhook call comes after the
\* successful commit; the commit comes after the folder lookup, which comes
\* after the gate of the type has passed; a call rejected by a gate has made
\* neither the folder lookup nor the commit.
C11_PhaseOrder ==
    /\ \A i \in 1..Len(calls) :
         /\ calls[i].op \in PostCommitOps =>
              \E j \in 1..(i - 1) :
                  calls[j].op = "document.create" /\ calls[j].detail.succeeds
         /\ calls[i].op = "document.create" =>
              /\ \E j \in 1..(i - 1) : calls[j].op = "folder.findUnique"
              /\ GatePassedBefore(i)
         /\ calls[i].op = "folder.findUnique" => GatePassedBefore(i)
    /\ result.error \in GateErrors =>
         /\ pc = "rejected"
         /\ CallsOf("folder.findUnique") = {}
         /\ CallsOf("document.create") = {}

C11_Witness ==
    /\ pc = "done"
    /\ type = "notion"
    /\ CallsOf("webhook") # {}

\* The task names of the triggers made so far.
TriggeredTasks == { calls[i].detail.trigger.task : i \in CallsOf("trigger") }

\* The dispatch table.
TableTasks(t, ct) ==
    IF t = "slides" /\ ct \in { <<"application/", "vnd.apple.keynote">>,
                               <<"application/", "x-iwork-keynote-sffkey">> }
    THEN {"convertKeynoteToPdfTask"}
    ELSE IF t \in {"docs", "slides"} THEN {"convertFilesToPdfTask"}
    ELSE IF t = "cad" THEN {"convertCadToPdfTask"}
    ELSE IF t = "pdf" THEN {"convertPdfToImageRoute"}
    ELSE IF /\ t = "video"
            /\ ct # None
            /\ ct[1] = "video/"
            /\ ct # <<"video/", "mp4">>
    THEN {"processVideo"}
    ELSE {}

DispatchOver ==
    pc \in {"advCopy", "advUpdate", "advRevalidate", "webhooks",
            "awaitWebhooks", "return", "done"}

\* C12: the tasks triggered after the commit are exactly those of the
\* dispatch table for the type and the content type.
C12_DispatchTable ==
    /\ DispatchOver => TriggeredTasks = TableTasks(type, contentType)
    /\ ~DispatchOver => TriggeredTasks = {}

C12_Witness ==
    /\ pc = "done"
    /\ type = "video"
    /\ contentType = <<"video/", "quicktime">>
    /\ TriggeredTasks = {"processVideo"}

\* The id of the primary version of the document of this call, in the store.
PrimaryVersionId ==
    (CHOOSE v \in VersionsOf(document.id) : v.isPrimary).id

BaseKey == args.teamId \o <<"-">> \o PrimaryVersionId

KindSuffix(task) ==
    CASE task = "convertKeynoteToPdfTask" -> <<"-keynote">>
      [] task = "convertFilesToPdfTask" -> <<"-docs">>
      [] task = "convertCadToPdfTask" -> <<"-cad">>
      [] OTHER -> <<>>

OtherAttempts ==
    { Tasks([args EXCEPT !.documentData = data, !.teamPlan = plan,
                         !.createLink = ~@],
            [document EXCEPT !.id = DocId(n)]) :
        data \in Payloads, plan \in TeamPlans, n \in 1..(MaxExisting + 1) }

\* C14: the key is a function of team id, version id and task kind: any
\* other attempt for the same team, version and task kind submits the key
\* this call submitted.
C14_KeyDeterministic ==
    pc = "webhooks" =>
        \A i \in CallsOf("trigger") :
            \A other \in OtherAttempts :
                \A k \in 1..Len(other) :
                    other[k].task = calls[i].detail.trigger.task =>
                        other[k].options.idempotencyKey =
                            calls[i].detail.trigger.options.idempotencyKey

C14_Witness ==
    /\ pc = "webhooks"
    /\ TriggeredTasks = {"convertPdfToImageRoute"}
    /\ args.teamPlan = "pro"

HasField(r, f) == f \in DOMAIN r

\* The statement of C15 as claimed: every payload carries the document id,
\* the version id and the team id.
C15_EveryPayloadHasDocumentId ==
    \A i \in CallsOf("trigger") :
        LET p == calls[i].detail.trigger.payload IN
        /\ HasField(p, "documentId") /\ p.documentId = document.id
        /\ HasField(p, "documentVersionId")
        /\ p.documentVersionId = PrimaryVersionId
        /\ HasField(p, "teamId") /\ p.teamId = args.teamId

\* C15 (amended): every payload carries the version id and the team id; the
\* Keynote, Office, CAD and PDF payloads also carry the document id; the
\* video payload has no documentId but a docId, the second segment of the
\* key.
C15_PayloadIds ==
    \A i \in CallsOf("trigger") :
        LET p == calls[i].detail.trigger.payload IN
        /\ p.documentVersionId = PrimaryVersionId
        /\ p.teamId = args.teamId
        /\ IF calls[i].detail.trigger.task = "processVideo"
           THEN /\ ~HasField(p, "documentId")
                /\ p.docId = <<"doc_abc">>
                /\ p.docId # document.id
           ELSE p.documentId = document.id

C15_Witness ==
    /\ pc = "done"
    /\ TriggeredTasks = {"processVideo"}
    /\ ~FailedTrigger

Elements(seq) == { seq[i] : i \in 1..Len(seq) }

\* C16: every trigger carries the tags team_<teamId>, document_<documentId>
\* and version:<versionId>, the team id as concurrency key and the queue
\* conversionQueue gives for the team plan.
C16_TagsQueueConcurrency ==
    \A i \in CallsOf("trigger") :
        LET o == calls[i].detail.trigger.options IN
        /\ Elements(o.tags) = { <<"team_">> \o args.teamId,
                                <<"document_">> \o document.id,
                                <<"version:">> \o PrimaryVersionId }
        /\ o.concurrencyKey = args.teamId
        /\ o.queue = conversionQueue(args.teamPlan)

C16_Witness ==
    /\ pc = "done"
    /\ type = "pdf"
    /\ \E i \in CallsOf("trigger") :
         /\ calls[i].detail.trigger.task = "convertPdfToImageRoute"
         /\ <<"document_">> \o document.id
              \in Elements(calls[i].detail.trigger.options.tags)

\* The row of the document of this call, in the store.
StoredDocument == CHOOSE d \in store.documents : d.id = document.id

\* C17: the created document is download-only exactly when its type is zip,
\* map or email or its content type is text/tab-separated-values; a zip
\* document is download-only and triggers no task, a pdf document with
\* content type application/pdf is not download-only.
C17_DownloadOnly ==
    Committed =>
        /\ StoredDocument.downloadOnly <=>
             \/ type \in {"zip", "map", "email"}
             \/ contentType = <<"text/", "tab-separated-values">>
        /\ document.row.downloadOnly = StoredDocument.downloadOnly
        /\ type = "zip" => StoredDocument.downloadOnly /\ TriggeredTasks = {}
        /\ (type = "pdf" /\ contentType = <<"application/", "pdf">>) =>
             ~StoredDocument.downloadOnly

C17_Witness ==
    /\ pc = "done"
    /\ type = "sheet"
    /\ StoredDocument.downloadOnly

\* The webhooks called so far.
SentWebhooks == { calls[i].detail.sent : i \in CallsOf("webhook") }
SentNames == { w.webhook : w \in SentWebhooks }

WebhooksStarted == pc \in {"awaitWebhooks", "return", "done"}

\* C18: once the webhooks have been started, the document-created webhook
\* has been sent exactly when isExternalUpload is false and the link-created
\* webhook exactly when createLink is true; both carry the team id and the
\* id of the created document, and the link webhook the id of the link the
\* commit created; before that, no webhook has been sent.
C18_WebhooksSent ==
    /\ ~WebhooksStarted => SentWebhooks = {}
    /\ WebhooksStarted =>
         /\ "sendDocumentCreatedWebhook" \in SentNames
              <=> ~args.isExternalUpload
         /\ "sendLinkCreatedWebhook" \in SentNames <=> args.createLink
         /\ Cardinality(CallsOf("webhook")) = Cardinality(SentNames)
         /\ \A w \in SentWebhooks :
              /\ w.teamId = args.teamId
              /\ w.data.document_id = document.id
              /\ w.webhook = "sendLinkCreatedWebhook" =>
                   \E l \in LinksOf(document.id) : w.data.link_id = l.id

C18_Witness ==
    /\ pc = "done"
    /\ args.isExternalUpload
    /\ SentNames = {"sendLinkCreatedWebhook"}

\* The webhooks that have settled so far.
SettledNames ==
    { calls[i].detail.webhook : i \in CallsOf("webhook settled") }

\* The given webhook promise settles with the given outcome.
SettlesAs(w, outcome) ==
    /\ SettleWebhook
    /\ calls' = Append(calls, Call("webhook settled",
                                   [ webhook |-> w, outcome |-> outcome ]))

\* C19: the two webhooks are isolated: every webhook call is made before any
\* webhook result arrives; a rejected delivery of one leaves the other sent,
\* free to be delivered or to fail, and awaited: the call goes on to return
\* only when every webhook it sent has settled.
C19_WebhooksIsolated ==
    /\ \A i \in CallsOf("webhook settled") :
         \A j \in CallsOf("webhook") : j < i
    /\ RejectedWebhooks # {} =>
         /\ ~args.isExternalUpload => "sendDocumentCreatedWebhook" \in SentNames
         /\ args.createLink => "sendLinkCreatedWebhook" \in SentNames
         /\ \A w \in SentNames \ SettledNames :
              /\ pc = "awaitWebhooks"
              /\ ENABLED SettlesAs(w, "fulfilled")
              /\ ENABLED SettlesAs(w, "rejected")
    /\ pc \in {"return", "done"} => SettledNames = SentNames

C19_Witness ==
    /\ pc = "awaitWebhooks"
    /\ RejectedWebhooks = {"sendDocumentCreatedWebhook"}
    /\ pending = {"sendLinkCreatedWebhook"}

AdvancedOps ==
    {"copyFileToBucketServer", "documentVersion.update", "fetch revalidate"}

\* C20: the advanced-mode steps run only for a sheet with the flag set, in
\* the order copy, page-count update, revalidation: the update is attempted
\* only after a successful copy and the revalidation only after a successful
\* update; the page count in the store changes only with a successful
\* update; a failed step is not thrown.
C20_AdvancedModeOrder ==
    /\ \A i \in 1..Len(calls) :
         /\ calls[i].op \in AdvancedOps =>
              /\ type = "sheet"
              /\ args.documentData.enableExcelAdvancedMode
              /\ result.status # "rejected"
         /\ calls[i].op = "copyFileToBucketServer" =>
              \A j \in 1..(i - 1) : calls[j].op \notin AdvancedOps
         /\ calls[i].op = "documentVersion.update" =>
              /\ calls[i - 1].op = "copyFileToBucketServer"
              /\ calls[i - 1].detail.ok
         /\ calls[i].op = "fetch revalidate" =>
              /\ calls[i - 1].op = "documentVersion.update"
              /\ calls[i - 1].detail.ok
    /\ (Committed /\ ~PageCountUpdated) =>
         \A v \in VersionsOf(document.id) :
             v.numPages = args.documentData.numPages
    /\ (DispatchOver /\ pc \notin {"advCopy", "advUpdate", "advRevalidate"}
          /\ type = "sheet" /\ args.documentData.enableExcelAdvancedMode) =>
         CallsOf("copyFileToBucketServer") # {}

C20_Witness ==
    /\ pc = "done"
    /\ CallsOf("fetch revalidate") # {}
    /\ args.documentData.numPages = Some(MaxNumPages)

\* -------------------------------------------------------------------------
\* URL validation (src/lib/zod/url-validation.ts): strings
\* -------------------------------------------------------------------------

\* The validators look at their argument character by character, so in this
\* part of the model a string is the sequence of its characters, each a
\* one-character string.  NUL stands for the null byte.
NUL == "NUL"

LowerSeq == <<"a", "b", "c", "d", "e", "f", "g", "h", "i", "j", "k", "l", "m", "n", "o", "p", "q", "r", "s", "t", "u", "v", "w", "x", "y", "z">>
UpperSeq == <<"A", "B", "C", "D", "E", "F", "G", "H", "I", "J", "K", "L", "M", "N", "O", "P", "Q", "R", "S", "T", "U", "V", "W", "X", "Y", "Z">>
DigitSeq == <<"0", "1", "2", "3", "4", "5", "6", "7", "8", "9">>
HexSeq == <<"0", "1", "2", "3", "4", "5", "6", "7", "8", "9", "a", "b", "c", "d", "e", "f">>

CharsOf(seq) == { seq[i] : i \in DOMAIN seq }

Lower == CharsOf(LowerSeq)
Upper == CharsOf(UpperSeq)
Digits == CharsOf(DigitSeq)
Alnum == Lower \cup Upper \cup Digits

Take(s, n) == SubSeq(s, 1, n)
Drop(s, n) == SubSeq(s, n + 1, Len(s))

\* String.prototype.startsWith and endsWith
startsWith(s, prefix) == Len(s) >= Len(prefix) /\ Take(s, Len(prefix)) = prefix
endsWith(s, suffix) ==
    Len(s) >= Len(suffix) /\ Drop(s, Len(s) - Len(suffix)) = suffix

\* String.prototype.toLowerCase
LowerChar(c) ==
    IF c \in Upper THEN LowerSeq[CHOOSE k \in 1..26 : UpperSeq[k] = c] ELSE c
toLowerCase(s) ==
    IF s = <<>> THEN <<>> ELSE [i \in 1..Len(s) |-> LowerChar(s[i])]

\* Position of the first (last) character of s that is in C, 0 if none.
IndexOfChar(s, C) ==
    IF \E i \in 1..Len(s) : s[i] \in C
    THEN CHOOSE i \in 1..Len(s) :
           s[i] \in C /\ \A j \in 1..(i - 1) : s[j] \notin C
    ELSE 0
LastIndexOfChar(s, C) ==
    IF \E i \in 1..Len(s) : s[i] \in C
    THEN CHOOSE i \in 1..Len(s) :
           s[i] \in C /\ \A j \in (i + 1)..Len(s) : s[j] \notin C
    ELSE 0

\* The part of s before its first character in C, all of s if there is none.
UpTo(s, C) ==
    LET Before(i) == IF i = 0 THEN s ELSE Take(s, i - 1)
    IN  Before(IndexOfChar(s, C))

\* String.prototype.split for a one-character separator.
RECURSIVE SplitAt(_, _)
SplitAt(s, c) ==
    LET Cut(i) == IF i = 0 THEN <<s>>
                  ELSE <<Take(s, i - 1)>> \o SplitAt(Drop(s, i), c)
    IN  Cut(IndexOfChar(s, {c}))

\* Number to string, in base 10 and in base 16.
RECURSIVE ToDecimal(_)
ToDecimal(n) ==
    IF n < 10 THEN <<DigitSeq[n + 1]>>
    ELSE ToDecimal(n \div 10) \o <<DigitSeq[(n % 10) + 1]>>
RECURSIVE ToHex(_)
ToHex(n) ==
    IF n < 16 THEN <<HexSeq[n + 1]>>
    ELSE ToHex(n \div 16) \o <<HexSeq[(n % 16) + 1]>>

\* Value of a digit, -1 for a character that is no digit in any base.
DigitValue(c) ==
    LET Value(l) == IF \E k \in 1..16 : HexSeq[k] = l
                    THEN (CHOOSE k \in 1..16 : HexSeq[k] = l) - 1
                    ELSE -1
    IN  Value(LowerChar(c))

\* String to number in the given base, -1 if a character is not a digit
\* of that base.  The empty string is 0.
RECURSIVE ParseRadix(_, _)
ParseRadix(s, base) ==
    LET Add(init, d) ==
            IF init < 0 \/ d < 0 \/ d >= base THEN -1 ELSE init * base + d
    IN  IF s = <<>> THEN 0
        ELSE Add(ParseRadix(Take(s, Len(s) - 1), base), DigitValue(s[Len(s)]))

\* -------------------------------------------------------------------------
\* new URL(url) and its hostname, as the platform's URL parser computes them
\* -------------------------------------------------------------------------

\* Schemes whose URLs always have a host.
SpecialSchemes == { <<"h", "t", "t", "p">>, <<"h", "t", "t", "p", "s">>, <<"f", "t", "p">>, <<"w", "s">>, <<"w", "s", "s">> }

\* Characters a host may not contain.  A "%" left in a host is a malformed
\* escape; hosts with well-formed escapes are outside the inputs used here.
ForbiddenHostChars ==
    { NUL, " ", "#", "/", ":", "<", ">", "?", "@", "[", "\\", "]", "^", "|",
      "%" }

\* A number of an IPv4 host: hexadecimal after 0x, octal after a leading 0,
\* decimal otherwise; -1 if it is none of these.
ParseIPv4Number(part) ==
    IF part = <<>> THEN -1
    ELSE ParseRadix(
           IF Len(part) >= 2 /\ part[1] = "0" /\ part[2] \in {"x", "X"}
           THEN Drop(part, 2)
           ELSE IF Len(part) >= 2 /\ part[1] = "0" THEN Drop(part, 1) ELSE part,
           IF Len(part) >= 2 /\ part[1] = "0" /\ part[2] \in {"x", "X"} THEN 16
           ELSE IF Len(part) >= 2 /\ part[1] = "0" THEN 8 ELSE 10)

\* The dot-separated parts of a host, without the empty part a trailing dot
\* leaves.
HostParts(host) ==
    LET Strip(p) ==
            IF Len(p) > 1 /\ p[Len(p)] = <<>> THEN Take(p, Len(p) - 1) ELSE p
    IN  Strip(SplitAt(host, "."))

\* A host is parsed as an IPv4 address when its last part is a number
\* (num holds the numbers of the parts).
EndsInNumber(parts, num) ==
    /\ parts[Len(parts)] # <<>>
    /\ \/ \A i \in 1..Len(parts[Len(parts)]) : parts[Len(parts)][i] \in Digits
       \/ num[Len(parts)] >= 0

Pow256(k) == IF k = 0 THEN 1 ELSE IF k = 1 THEN 256 ELSE IF k = 2 THEN 65536
             ELSE 16777216

\* The four octets of an IPv4 host written with one to four numbers, <<>>
\* if it is not an address: every number but the last is one octet, the last
\* fills the remaining octets.
ParseIPv4(num) ==
    IF Len(num) > 4 THEN <<>>
    ELSE IF \E i \in 1..Len(num) : num[i] < 0 THEN <<>>
    ELSE IF \E i \in 1..(Len(num) - 1) : num[i] > 255 THEN <<>>
    ELSE IF Len(num) > 1 /\ num[Len(num)] >= Pow256(5 - Len(num)) THEN <<>>
    ELSE [i \in 1..4 |->
            IF i < Len(num) THEN num[i]
            ELSE (num[Len(num)] \div Pow256(4 - i)) % 256]

SerializeIPv4(octets) ==
    ToDecimal(octets[1]) \o <<".">> \o ToDecimal(octets[2]) \o <<".">>
      \o ToDecimal(octets[3]) \o <<".">> \o ToDecimal(octets[4])

\* The colon-separated pieces of (a side of) an IPv6 address.
Pieces(s) == IF s = <<>> THEN <<>> ELSE SplitAt(s, ":")
ValidPiece(p) ==
    Len(p) \in 1..4 /\ \A i \in 1..Len(p) : DigitValue(p[i]) >= 0

\* The eight 16-bit pieces of an IPv6 address, <<>> if it is not one; "::"
\* (at dc, 0 if there is none) stands for one run of zero pieces.  Addresses
\* with an embedded IPv4 part are outside the inputs used here.
ParseIPv6(inner) ==
    LET Values(p, nleft, compressed) ==
            IF \/ \E i \in 1..Len(p) : ~ValidPiece(p[i])
               \/ ~compressed /\ Len(p) # 8
               \/ compressed /\ Len(p) > 7
            THEN <<>>
            ELSE [i \in 1..8 |->
                    IF i > nleft /\ i <= 8 - (Len(p) - nleft) THEN 0
                    ELSE ParseRadix(p[IF i <= nleft THEN i ELSE i - (8 - Len(p))],
                                    16)]
        Sides(left, right, compressed) ==
            Values(left \o right, Len(left), compressed)
        At(dc) ==
            Sides(Pieces(IF dc = 0 THEN inner ELSE Take(inner, dc - 1)),
                  Pieces(IF dc = 0 THEN <<>> ELSE Drop(inner, dc + 1)),
                  dc # 0)
    IN  At(IF Includes(inner, <<":", ":">>)
           THEN CHOOSE i \in 1..(Len(inner) - 1) :
                  /\ inner[i] = ":" /\ inner[i + 1] = ":"
                  /\ \A j \in 1..(i - 1) :
                       ~(inner[j] = ":" /\ inner[j + 1] = ":")
           ELSE 0)

\* Length of the run of zero pieces that starts at piece i.
RECURSIVE ZeroRun(_, _)
ZeroRun(v, i) == IF i > 8 \/ v[i] # 0 THEN 0 ELSE 1 + ZeroRun(v, i + 1)

RECURSIVE SerializePieces(_, _, _, _)
SerializePieces(v, i, start, len) ==
    IF i > 8 THEN <<>>
    ELSE IF len >= 2 /\ i = start
         THEN (IF i = 1 THEN <<":", ":">> ELSE <<":">>)
                \o SerializePieces(v, i + len, start, len)
    ELSE ToHex(v[i]) \o (IF i < 8 THEN <<":">> ELSE <<>>)
           \o SerializePieces(v, i + 1, start, len)

\* An IPv6 host is written in lower-case hexadecimal, its first longest run
\* of two or more zero pieces compressed to "::".
SerializeIPv6(v) ==
    LET From(run, len) ==
            SerializePieces(v, 1,
                CHOOSE i \in 1..8 :
                  run[i] = len /\ \A j \in 1..(i - 1) : run[j] < len,
                len)
        Longest(run) ==
            From(run, CHOOSE l \in 0..8 :
                        /\ \E i \in 1..8 : run[i] = l
                        /\ \A i \in 1..8 : run[i] <= l)
    IN  Longest([i \in 1..8 |-> ZeroRun(v, i)])

InvalidUrl == [ok |-> FALSE, hostname |-> <<>>]
ParsedUrl(host) == [ok |-> TRUE, hostname |-> host]

\* Faulty variant: an IPv6 host is reported without its brackets.
ParseHost_NoBrackets(host, special) ==
    LET Address(v) ==
            IF v = <<>> THEN InvalidUrl ELSE ParsedUrl(SerializeIPv6(v))
        Quad(octets) ==
            IF octets = <<>> THEN InvalidUrl ELSE ParsedUrl(SerializeIPv4(octets))
        Numbered(lower, parts, num) ==
            IF EndsInNumber(parts, num) THEN Quad(ParseIPv4(num))
            ELSE ParsedUrl(lower)
        Parts(lower, parts) ==
            Numbered(lower, parts,
                     [i \in 1..Len(parts) |-> ParseIPv4Number(parts[i])])
        Domain(lower) == Parts(lower, HostParts(lower))
    IN  IF host # <<>> /\ host[1] = "["
        THEN IF host[Len(host)] # "]" THEN InvalidUrl
             ELSE Address(ParseIPv6(SubSeq(host, 2, Len(host) - 1)))
        ELSE IF \E i \in 1..Len(host) : host[i] \in ForbiddenHostChars
             THEN InvalidUrl
        ELSE IF ~special THEN ParsedUrl(host)
        ELSE IF host = <<>> THEN InvalidUrl
        ELSE Domain(toLowerCase(host))

\* The host of a URL: an IPv6 address in brackets is reported in brackets,
\* a domain in lower case, an IPv4 address as four decimal octets.
ParseHost(host, special) ==
    LET Address(v) ==
            IF v = <<>> THEN InvalidUrl
            ELSE ParsedUrl(<<"[">> \o SerializeIPv6(v) \o <<"]">>)
        Quad(octets) ==
            IF octets = <<>> THEN InvalidUrl ELSE ParsedUrl(SerializeIPv4(octets))
        Numbered(lower, parts, num) ==
            IF EndsInNumber(parts, num) THEN Quad(ParseIPv4(num))
            ELSE ParsedUrl(lower)
        Parts(lower, parts) ==
            Numbered(lower, parts,
                     [i \in 1..Len(parts) |-> ParseIPv4Number(parts[i])])
        Domain(lower) == Parts(lower, HostParts(lower))
    IN  IF host # <<>> /\ host[1] = "["
        THEN IF host[Len(host)] # "]" THEN InvalidUrl
             ELSE Address(ParseIPv6(SubSeq(host, 2, Len(host) - 1)))
        ELSE IF \E i \in 1..Len(host) : host[i] \in ForbiddenHostChars
             THEN InvalidUrl
        ELSE IF ~special THEN ParsedUrl(host)
        ELSE IF host = <<>> THEN InvalidUrl
        ELSE Domain(toLowerCase(host))

\* The authority is [userinfo@]host[:port]; the port is a decimal number.
\* The colon of the port is the first one, or the one after the bracket.
ParseAuthority(authority, special) ==
    LET PortSplit(hostport, colon) ==
            IF colon # 0 /\ hostport[colon] # ":" THEN InvalidUrl
            ELSE IF /\ colon # 0
                    /\ \E i \in (colon + 1)..Len(hostport) :
                         hostport[i] \notin Digits
                 THEN InvalidUrl
            ELSE IF special /\ colon = 1 THEN InvalidUrl
            ELSE ParseHost(IF colon = 0 THEN hostport
                           ELSE Take(hostport, colon - 1), special)
        Found(hostport, i) ==
            PortSplit(hostport,
                      IF hostport[1] # "[" THEN i
                      ELSE IF i = 0 \/ i = Len(hostport) THEN 0 ELSE i + 1)
        HostPort(hostport) ==
            IF hostport = <<>>
            THEN (IF special THEN InvalidUrl ELSE ParsedUrl(<<>>))
            ELSE Found(hostport,
                       IndexOfChar(hostport,
                                   IF hostport[1] = "[" THEN {"]"} ELSE {":"}))
    IN  HostPort(Drop(authority, LastIndexOfChar(authority, {"@"})))

\* Leading and trailing spaces are not part of the URL.
RECURSIVE Trim(_)
Trim(s) ==
    IF s # <<>> /\ s[1] = " " THEN Trim(Drop(s, 1))
    ELSE IF s # <<>> /\ s[Len(s)] = " " THEN Trim(Take(s, Len(s) - 1))
    ELSE s

RECURSIVE DropSlashes(_)
DropSlashes(s) ==
    IF s # <<>> /\ s[1] \in {"/", "\\"} THEN DropSlashes(Drop(s, 1)) ELSE s

\* new URL(url) without a base: ok is FALSE where the constructor throws.
\* A URL is scheme ":" rest; for a special scheme the authority follows any
\* number of slashes and ends at the next slash, "?" or "#".
URL(url) ==
    LET Rest(rest, special) ==
            IF ~special /\ ~startsWith(rest, <<"/", "/">>) THEN ParsedUrl(<<>>)
            ELSE ParseAuthority(
                   UpTo(IF special THEN DropSlashes(rest) ELSE Drop(rest, 2),
                        IF special THEN {"/", "\\", "?", "#"} ELSE {"/", "?", "#"}),
                   special)
        Scheme(scheme, rest) ==
            IF \/ scheme[1] \notin Lower
               \/ \E i \in 1..Len(scheme) :
                    scheme[i] \notin (Lower \cup Digits \cup {"+", "-", "."})
            THEN InvalidUrl
            ELSE Rest(rest, scheme \in SpecialSchemes)
        Cut(s, colon) ==
            IF colon <= 1 THEN InvalidUrl
            ELSE Scheme(toLowerCase(Take(s, colon - 1)), Drop(s, colon))
        Trimmed(s) == Cut(s, IndexOfChar(s, {":"}))
    IN  Trimmed(Trim(url))

\* -------------------------------------------------------------------------
\* The security validators
\* -------------------------------------------------------------------------

\* Faulty variant: the backslash form of the traversal is not looked for.
validatePathSecurity_NoBackslash(pathOrUrl) ==
    IF Includes(pathOrUrl, <<".", ".", "/">>) THEN FALSE
    ELSE IF Includes(pathOrUrl, <<NUL>>) THEN FALSE
    ELSE IF Includes(pathOrUrl, <<"%", "2", "E", "%", "2", "E">>) \/ Includes(pathOrUrl, <<"%", "2", "F", "%", "2", "F">>)
         THEN FALSE
    ELSE TRUE

\* Faulty variant: the encoded sequences are looked for in both cases.
validatePathSecurity_AnyCase(pathOrUrl) ==
    IF Includes(pathOrUrl, <<".", ".", "/">>) \/ Includes(pathOrUrl, <<".", ".", "\\">>) THEN FALSE
    ELSE IF Includes(pathOrUrl, <<NUL>>) THEN FALSE
    ELSE IF \E e \in {"E", "e"}, f \in {"F", "f"} :
              \/ Includes(pathOrUrl, <<"%", "2", e, "%", "2", e>>)
              \/ Includes(pathOrUrl, <<"%", "2", f, "%", "2", f>>)
         THEN FALSE
    ELSE TRUE

validatePathSecurity(pathOrUrl) ==
    IF Includes(pathOrUrl, <<".", ".", "/">>) \/ Includes(pathOrUrl, <<".", ".", "\\">>) THEN FALSE
    ELSE IF Includes(pathOrUrl, <<NUL>>) THEN FALSE
    ELSE IF Includes(pathOrUrl, <<"%", "2", "E", "%", "2", "E">>) \/ Includes(pathOrUrl, <<"%", "2", "F", "%", "2", "F">>)
         THEN FALSE
    ELSE TRUE

\* Faulty variant: the 172 range is matched on its first digit only.
MatchesPrivateRange_Wide172(hostname) ==
    \/ startsWith(hostname, <<"1", "0", ".">>)
    \/ /\ startsWith(hostname, <<"1", "7", "2", ".">>)
       /\ Len(hostname) >= 5
       /\ hostname[5] \in {"1", "2", "3"}
    \/ startsWith(hostname, <<"1", "9", "2", ".", "1", "6", "8", ".">>)

\* /^10\.|^172\.(1[6-9]|2[0-9]|3[01])\.|^192\.168\./
MatchesPrivateRange(hostname) ==
    \/ startsWith(hostname, <<"1", "0", ".">>)
    \/ /\ startsWith(hostname, <<"1", "7", "2", ".">>)
       /\ Len(hostname) >= 7
       /\ \/ hostname[5] = "1" /\ hostname[6] \in {"6", "7", "8", "9"}
          \/ hostname[5] = "2" /\ hostname[6] \in Digits
          \/ hostname[5] = "3" /\ hostname[6] \in {"0", "1"}
       /\ hostname[7] = "."
    \/ startsWith(hostname, <<"1", "9", "2", ".", "1", "6", "8", ".">>)

\* /^169\.254\./
MatchesLinkLocal(hostname) == startsWith(hostname, <<"1", "6", "9", ".", "2", "5", "4", ".">>)

\* The checks on the hostname of a URL that parsed.
HostAllowed(hostname) ==
    IF \/ hostname = <<"l", "o", "c", "a", "l", "h", "o", "s", "t">>
       \/ hostname = <<"1", "2", "7", ".", "0", ".", "0", ".", "1">>
       \/ hostname = <<":", ":", "1">>
    THEN FALSE
    ELSE IF MatchesPrivateRange(hostname) THEN FALSE
    ELSE IF MatchesLinkLocal(hostname) THEN FALSE
    ELSE IF startsWith(toLowerCase(hostname), <<"f", "e", "8", "0", ":">>) THEN FALSE
    ELSE TRUE

\* new URL(url) throwing is the catch.
validateUrlSSRFProtection(url) ==
    LET Check(urlObj) == IF ~urlObj.ok THEN FALSE ELSE HostAllowed(urlObj.hostname)
    IN  Check(URL(url))

validateUrlSecurity(url) ==
    validatePathSecurity(url) /\ validateUrlSSRFProtection(url)

\* /^[a-zA-Z0-9_-]+\/doc_[a-zA-Z0-9_-]+\/[a-zA-Z0-9_.-]+\.[a-zA-Z0-9]+$/
\* The character classes hold no "/", so a match has exactly three
\* segments; the last one is a run of name characters, a dot and a run of
\* letters and digits.
s3PathPattern(path) ==
    LET segs == SplitAt(path, "/")
        id == Alnum \cup {"_", "-"}
        all(s, C) == \A i \in 1..Len(s) : s[i] \in C
    IN  /\ Len(segs) = 3
        /\ segs[1] # <<>> /\ all(segs[1], id)
        /\ startsWith(segs[2], <<"d", "o", "c", "_">>)
        /\ Len(segs[2]) > 4 /\ all(Drop(segs[2], 4), id)
        /\ \E i \in 2..(Len(segs[3]) - 1) :
             /\ segs[3][i] = "."
             /\ all(Take(segs[3], i - 1), id \cup {"."})
             /\ all(Drop(segs[3], i), Alnum)

\* filePathSchema.safeParseAsync(path).success: min(1) and both refinements.
filePathSchema(path) ==
    /\ Len(path) >= 1
    /\ IF startsWith(path, <<"h", "t", "t", "p", "s", ":", "/", "/">>) THEN validateUrlSecurity(path)
       ELSE s3PathPattern(path)
    /\ validatePathSecurity(path)

\* -------------------------------------------------------------------------
\* documentUploadSchema and notionUrlUpdateSchema
\* -------------------------------------------------------------------------

\* getSupportedContentType: the logical type of a content type, Undefined
\* for a content type that has none.
getSupportedContentType(ct) ==
    CASE ct = <<"application/", "pdf">> -> "pdf"
      [] ct = <<"application/", "msword">> -> "docs"
      [] ct = <<"application/", "vnd.ms-powerpoint">> -> "slides"
      [] ct = <<"application/", "vnd.ms-excel">> -> "sheet"
      [] ct = <<"video/", "mp4">> -> "video"
      [] ct = <<"image/", "png">> -> "image"
      [] OTHER -> Undefined

\* Faulty variant: a link is accepted whatever its URL.
UrlRule_LinkUnchecked(data) ==
    IF data.type = "link" THEN TRUE
    ELSE IF data.storageType = "VERCEL_BLOB" /\ startsWith(data.url, <<"h", "t", "t", "p", "s", ":", "/", "/">>)
         THEN validateUrlSecurity(data.url)
    ELSE filePathSchema(data.url)

\* First refinement (path url).  new URL(data.url) throwing is the catch.
UrlRule(data) ==
    IF data.type = "link"
    THEN IF ~startsWith(data.url, <<"h", "t", "t", "p", "s", ":", "/", "/">>) THEN FALSE
         ELSE IF ~URL(data.url).ok THEN FALSE
         ELSE validateUrlSecurity(data.url)
    ELSE IF data.storageType = "VERCEL_BLOB" /\ startsWith(data.url, <<"h", "t", "t", "p", "s", ":", "/", "/">>)
         THEN validateUrlSecurity(data.url)
    ELSE filePathSchema(data.url)

\* Faulty variant: the text/html exception holds for every type.
ContentTypeRule_HtmlAnywhere(data) ==
    IF data.contentType = None THEN data.type = "notion" \/ data.type = "link"
    ELSE IF data.type = "link" THEN TRUE
    ELSE IF data.contentType = <<"text/", "html">> THEN TRUE
    ELSE getSupportedContentType(data.contentType) = data.type

\* Second refinement (path contentType).
ContentTypeRule(data) ==
    IF data.contentType = None THEN data.type = "notion" \/ data.type = "link"
    ELSE IF data.type = "link" THEN TRUE
    ELSE IF data.contentType = <<"text/", "html">> /\ data.type = "notion" THEN TRUE
    ELSE getSupportedContentType(data.contentType) = data.type

\* Faulty variant: S3_PATH takes any value.
StorageTypeRule_AnyS3(data) ==
    IF data.type = "link" THEN TRUE
    ELSE IF data.storageType = Undefined
         THEN IF startsWith(data.url, <<"h", "t", "t", "p", "s", ":", "/", "/">>) THEN validateUrlSecurity(data.url)
              ELSE FALSE
    ELSE IF data.storageType = "S3_PATH" THEN TRUE
    ELSE IF data.storageType = "VERCEL_BLOB"
         THEN IF startsWith(data.url, <<"h", "t", "t", "p", "s", ":", "/", "/">>) THEN validateUrlSecurity(data.url)
              ELSE s3PathPattern(data.url)
    ELSE FALSE

\* Third refinement (path storageType).
StorageTypeRule(data) ==
    IF data.type = "link" THEN TRUE
    ELSE IF data.storageType = Undefined
         THEN IF startsWith(data.url, <<"h", "t", "t", "p", "s", ":", "/", "/">>) THEN validateUrlSecurity(data.url)
              ELSE FALSE
    ELSE IF data.storageType = "S3_PATH" THEN ~startsWith(data.url, <<"h", "t", "t", "p", "s", ":", "/", "/">>)
    ELSE IF data.storageType = "VERCEL_BLOB"
         THEN IF startsWith(data.url, <<"h", "t", "t", "p", "s", ":", "/", "/">>) THEN validateUrlSecurity(data.url)
              ELSE s3PathPattern(data.url)
    ELSE FALSE

\* The fields documentUploadSchema reports an issue for: url min(1), then
\* the three refinements, each run whatever the others answer.
UploadIssues(data) ==
    (IF Len(data.url) < 1 \/ ~UrlRule(data) THEN {"url"} ELSE {})
      \cup (IF ~ContentTypeRule(data) THEN {"contentType"} ELSE {})
      \cup (IF ~StorageTypeRule(data) THEN {"storageType"} ELSE {})

\* Second refinement of notionUrlUpdateSchema on notion.so and notion.site
\* hosts: the slug lookup has a catch of its own.
StandardDomainResult(parse, slug) ==
    IF parse = "throws" THEN "false"
    ELSE IF parse = "id" THEN "true"
    ELSE IF slug = "throws" THEN "false"
    ELSE IF slug = "id" THEN "true" ELSE "false"

\* Faulty variant: the error of the slug lookup leaves the refinement.
CustomDomainResult_Raises(parse, slug) ==
    IF parse = "throws" THEN "false"
    ELSE IF parse = "id" THEN "true"
    ELSE IF slug = "throws" THEN "raised"
    ELSE IF slug = "id" THEN "true" ELSE "false"

\* The same on any other host: one try block around both lookups.
CustomDomainResult(parse, slug) ==
    IF parse = "throws" \/ (parse = "none" /\ slug = "throws") THEN "false"
    ELSE IF parse = "id" THEN "true"
    ELSE IF slug = "id" THEN "true" ELSE "false"

\* Second refinement of notionUrlUpdateSchema; new URL(url) throwing is the
\* outer catch.
NotionPageRefine(url, parse, slug) ==
    LET Refine(urlObj) ==
            IF ~urlObj.ok THEN "false"
            ELSE IF \/ endsWith(urlObj.hostname, <<".", "n", "o", "t", "i", "o", "n", ".", "s", "i", "t", "e">>)
                    \/ urlObj.hostname \in { <<"w", "w", "w", ".", "n", "o", "t", "i", "o", "n", ".", "s", "o">>, <<"n", "o", "t", "i", "o", "n", ".", "s", "o">> }
                 THEN StandardDomainResult(parse, slug)
            ELSE CustomDomainResult(parse, slug)
    IN  Refine(URL(url))

\* The checks of notionUrlUpdateSchema that report an issue: url(), HTTPS,
\* the page id (page is the answer of the second refinement), the security
\* validators.
NotionIssues(url, page) ==
    (IF ~URL(url).ok THEN {"format"} ELSE {})
      \cup (IF ~startsWith(url, <<"h", "t", "t", "p", "s", ":", "/", "/">>) THEN {"https"} ELSE {})
      \cup (IF page # "true" THEN {"page"} ELSE {})
      \cup (IF ~(validatePathSecurity(url) /\ validateUrlSSRFProtection(url))
            THEN {"security"} ELSE {})

\* -------------------------------------------------------------------------
\* Validation: inputs and specification
\* -------------------------------------------------------------------------

\* The two URLs of the link scenarios.
InternalHttpUrl == <<"h", "t", "t", "p", ":", "/", "/", "i", "n", "t", "e", "r", "n", "a", "l", ".", "l", "o", "c", "a", "l", "/", "x">>
LocalhostHttpsUrl == <<"h", "t", "t", "p", "s", ":", "/", "/", "l", "o", "c", "a", "l", "h", "o", "s", "t", "/", "x">>

\* Values for the url of a submission: HTTPS URLs that pass, URLs to an
\* internal host, URLs and paths with a forbidden fragment, storage paths
\* inside and outside the path grammar, and the empty string.
UploadUrls ==
    { <<"h", "t", "t", "p", "s", ":", "/", "/", "e", "x", "a", "m", "p", "l", "e", ".", "c", "o", "m", "/", "x">>, InternalHttpUrl, LocalhostHttpsUrl,
      <<"h", "t", "t", "p", "s", ":", "/", "/", "[", ":", ":", "1", "]", "/", "x">>, <<"h", "t", "t", "p", "s", ":", "/", "/", "1", "0", ".", "0", ".", "0", ".", "8", "/", "x">>,
      <<"h", "t", "t", "p", "s", ":", "/", "/", "e", "x", "a", "m", "p", "l", "e", ".", "c", "o", "m", "/", ".", ".", "/", "x">>, <<"h", "t", "t", "p", "s", ":", "/", "/", "e", "x", "a", "m", "p", "l", "e", ".", "c", "o", "m", "/", "a", "%", "2", "F", "%", "2", "F", "b">>,
      <<"H", "T", "T", "P", "S", ":", "/", "/", "e", "x", "a", "m", "p", "l", "e", ".", "c", "o", "m", "/", "x">>, <<"n", "o", "t", " ", "a", " ", "u", "r", "l">>, <<>>,
      <<"t", "e", "a", "m", "1", "/", "d", "o", "c", "_", "a", "b", "c", "/", "r", "e", "p", "o", "r", "t", ".", "p", "d", "f">>, <<"t", "e", "a", "m", "-", "1", "/", "d", "o", "c", "_", "a", "_", "b", "/", "r", "e", ".", ".", "p", "o", "r", "t", ".", "v", "2", ".", "p", "d", "f">>,
      <<"t", "e", "a", "m", "1", "/", "d", "o", "c", "_", "a", "b", "c", "/", "r", "e", "p", "o", "r", "t">>, <<"t", "e", "a", "m", "1", "/", "a", "b", "c", "/", "r", "e", "p", "o", "r", "t", ".", "p", "d", "f">>,
      <<"t", "e", "a", "m", "1", "/", "d", "o", "c", "_", "a", "b", "c", "/", ".", ".", "/", "x", ".", "p", "d", "f">>, <<"t", "e", "a", "m", " ", "1", "/", "d", "o", "c", "_", "a", "b", "c", "/", "r", ".", "p", "d", "f">>,
      <<"t", "e", "a", "m", "1", "/", "d", "o", "c", "_", "/", "r", ".", "p", "d", "f">>, <<"t", "e", "a", "m", "1", "/", "d", "o", "c", "_", "a", "b", "c", "/", ".", "p", "d", "f">> }

\* Values for the Notion URL update.
NotionUrls ==
    { <<"h", "t", "t", "p", "s", ":", "/", "/", "w", "w", "w", ".", "n", "o", "t", "i", "o", "n", ".", "s", "o", "/", "p", "a", "g", "e">>, <<"h", "t", "t", "p", "s", ":", "/", "/", "n", "o", "t", "i", "o", "n", ".", "s", "o", "/", "p", "a", "g", "e">>,
      <<"h", "t", "t", "p", "s", ":", "/", "/", "a", "c", "m", "e", ".", "n", "o", "t", "i", "o", "n", ".", "s", "i", "t", "e", "/", "p", "a", "g", "e">>, <<"h", "t", "t", "p", "s", ":", "/", "/", "d", "o", "c", "s", ".", "a", "c", "m", "e", ".", "c", "o", "m", "/", "p", "a", "g", "e">>,
      <<"h", "t", "t", "p", ":", "/", "/", "n", "o", "t", "i", "o", "n", ".", "s", "o", "/", "p", "a", "g", "e">>, <<"h", "t", "t", "p", "s", ":", "/", "/", "n", "o", "t", "i", "o", "n", ".", "s", "o", "/", ".", ".", "/", "p", "a", "g", "e">>,
      <<"h", "t", "t", "p", "s", ":", "/", "/", "l", "o", "c", "a", "l", "h", "o", "s", "t", "/", "p", "a", "g", "e">>, <<"h", "t", "t", "p", "s", ":", "/", "/", "1", "9", "2", ".", "1", "6", "8", ".", "1", ".", "1", "/", "p", "a", "g", "e">>,
      <<"n", "o", "t", "i", "o", "n", ".", "s", "o", "/", "p", "a", "g", "e">>, <<"h", "t", "t", "p", "s", ":", "/", "/", "d", "o", "c", "s", ".", "a", "c", "m", "e", ".", "c", "o", "m", "/", "a", "%", "2", "E", "%", "2", "E", "b">> }

\* Strings for the validators: hosts of every kind the SSRF check looks
\* for, written in several forms, strings that are no URL, and strings
\* with and without each forbidden fragment.
UrlCorpus ==
    UploadUrls \cup NotionUrls \cup
    { <<"h", "t", "t", "p", "s", ":", "/", "/", "L", "O", "C", "A", "L", "H", "O", "S", "T", ":", "3", "0", "0", "0", "/", "x">>, <<"h", "t", "t", "p", "s", ":", "/", "/", "l", "o", "c", "a", "l", "h", "o", "s", "t", ".", "/", "x">>,
      <<"h", "t", "t", "p", "s", ":", "/", "/", "[", "f", "e", "8", "0", ":", ":", "1", "]", "/", "x">>, <<"h", "t", "t", "p", "s", ":", "/", "/", "[", "F", "E", "8", "0", ":", ":", "1", "]", ":", "8", "0", "8", "0", "/", "x">>,
      <<"h", "t", "t", "p", "s", ":", "/", "/", "[", "f", "e", "b", "f", ":", ":", "1", "]", "/", "x">>, <<"h", "t", "t", "p", "s", ":", "/", "/", "[", "f", "e", "c", "0", ":", ":", "1", "]", "/", "x">>,
      <<"h", "t", "t", "p", "s", ":", "/", "/", "[", "0", ":", "0", ":", "0", ":", "0", ":", "0", ":", "0", ":", "0", ":", "1", "]", "/", "x">>, <<"h", "t", "t", "p", "s", ":", "/", "/", "[", "2", "0", "0", "1", ":", "d", "b", "8", ":", ":", "1", "]", "/", "x">>,
      <<"h", "t", "t", "p", ":", "/", "/", "[", ":", ":", "1", "]", "/", "x">>, <<"h", "t", "t", "p", "s", ":", "/", "/", "[", ":", ":", "2", "]", "/", "x">>,
      <<"h", "t", "t", "p", "s", ":", "/", "/", ":", ":", "1", "/", "x">>, <<"h", "t", "t", "p", "s", ":", "/", "/", "f", "e", "8", "0", ":", ":", "1", "/", "x">>, <<"h", "t", "t", "p", "s", ":", "/", "/", "[", ":", ":", "1", "/", "x">>,
      <<"h", "t", "t", "p", "s", ":", "/", "/", "[", "z", "z", "]", "/", "x">>, <<"h", "t", "t", "p", "s", ":", "/", "/">>, <<"h", "t", "t", "p", "s", ":", "/", "/", "e", "x", "a", " ", "m", "p", "l", "e", ".", "c", "o", "m", "/", "x">>,
      <<"h", "t", "t", "p", "s", ":", "/", "/", "0", "x", "7", "f", ".", "0", ".", "0", ".", "1", "/", "x">>, <<"h", "t", "t", "p", "s", ":", "/", "/", "1", "2", "7", ".", "1", "/", "x">>, <<"h", "t", "t", "p", "s", ":", "/", "/", "2", "1", "3", "0", "7", "0", "6", "4", "3", "3", "/", "x">>,
      <<"h", "t", "t", "p", "s", ":", "/", "/", "0", "1", "7", "7", ".", "0", ".", "0", ".", "1", "/", "x">>, <<"h", "t", "t", "p", "s", ":", "/", "/", "e", "v", "i", "l", ".", "c", "o", "m", "@", "1", "2", "7", ".", "0", ".", "0", ".", "1", "/", "x">>,
      <<"h", "t", "t", "p", "s", ":", "/", "/", "2", "5", "6", ".", "1", ".", "1", ".", "1", "/", "x">>, <<"h", "t", "t", "p", "s", ":", "/", "/", "1", "0", ".", "e", "x", "a", "m", "p", "l", "e", ".", "c", "o", "m", "/", "x">>,
      <<"m", "a", "i", "l", "t", "o", ":", "a">>, <<"h", "t", "t", "p", "s", ":", "e", "x", "a", "m", "p", "l", "e", ".", "c", "o", "m">>,
      <<"h", "t", "t", "p", "s", ":", "/", "/", "e", "x", "a", "m", "p", "l", "e", ".", "c", "o", "m", "/", "a", ".", ".", "\\", "b">>, <<"h", "t", "t", "p", "s", ":", "/", "/", "e", "x", "a", "m", "p", "l", "e", ".", "c", "o", "m", "/", "a", NUL, "b">>,
      <<"h", "t", "t", "p", "s", ":", "/", "/", "e", "x", "a", "m", "p", "l", "e", ".", "c", "o", "m", "/", "%", "2", "E", "%", "2", "E", "/", "x">>, <<"h", "t", "t", "p", "s", ":", "/", "/", "e", "x", "a", "m", "p", "l", "e", ".", "c", "o", "m", "/", "%", "2", "e", "%", "2", "e", "/", "x">>,
      <<"h", "t", "t", "p", "s", ":", "/", "/", "e", "x", "a", "m", "p", "l", "e", ".", "c", "o", "m", "/", "a", "%", "2", "f", "%", "2", "f", "b">>, <<"h", "t", "t", "p", "s", ":", "/", "/", "e", "x", "a", "m", "p", "l", "e", ".", "c", "o", "m", "/", "a", ".", ".", "b", "/", ".", "x">>,
      <<".", ".", "\\", "x">>, <<"a", "/", ".", ".", "/", "b">> }

\* Dotted-quad hosts: the octets around every boundary of the ranges the
\* SSRF check looks for.
Quads ==
    { <<a, b, c, d>> :
        a \in {0, 1, 9, 10, 11, 17, 100, 126, 127, 128, 168, 169, 170, 171,
               172, 173, 191, 192, 193, 254, 255},
        b \in {0, 1, 2, 3, 15, 16, 17, 19, 20, 29, 30, 31, 32, 160, 167, 168,
               169, 200, 253, 254, 255},
        c \in {0, 1}, d \in {1, 2} }

QuadUrl == [q \in Quads |-> <<"h", "t", "t", "p", "s", ":", "/", "/">> \o SerializeIPv4(q) \o <<"/", "x">>]

Submission(fn, url, t, storageType, ct) ==
    [fn |-> fn, url |-> url, type |-> t, storageType |-> storageType,
     contentType |-> ct]

\* What a behaviour validates and with which function: a string for the
\* validators and the string schemas, a submission of a logical type, a
\* storage type and a content type for documentUploadSchema.
Subjects ==
    { Submission(fn, u, "pdf", Undefined, None) :
        fn \in {"validatePathSecurity", "validateUrlSSRFProtection",
                "validateUrlSecurity", "filePathSchema"},
        u \in UrlCorpus }
    \cup { Submission("validateUrlSSRFProtection", QuadUrl[q], "pdf", Undefined,
                      None) : q \in Quads }
    \cup { Submission("notionUrlUpdateSchema", u, "notion", Undefined, None) :
             u \in NotionUrls }
    \cup { Submission("documentUploadSchema", u, t, st, ct) :
             u \in UploadUrls,
             t \in {"link", "notion", "pdf", "docs", "video"},
             st \in {"S3_PATH", "VERCEL_BLOB", Undefined},
             ct \in { None, <<"application/", "pdf">>, <<"application/", "msword">>,
                      <<"text/", "html">>, <<"video/", "mp4">> } }

Answer(fn, ok, issues, env, raised) ==
    [fn |-> fn, ok |-> ok, issues |-> issues, env |-> env, raised |-> raised]
NoVerdict == Answer("none", FALSE, {}, None, FALSE)

\* The answer of a schema: it succeeds when it reports no issue.
IssuesAnswer(fn, issues, env, raised) ==
    Answer(fn, issues = {}, issues, env, raised)

ProcessOff ==
    /\ pc = "off" /\ args = NoArgs /\ store = StoreAfter(0)
    /\ folderId = None /\ document = NoDocument /\ result = Pending
    /\ calls = <<>> /\ pending = {}

InitValidate ==
    /\ subject \in Subjects
    /\ verdict = NoVerdict
    /\ ProcessOff
    /\ kv = None /\ request = None /\ hpc = None /\ responses = None
    /\ UploadOff /\ FolderOff

CallValidatePathSecurity ==
    /\ verdict.fn = "none"
    /\ subject.fn = "validatePathSecurity"
    /\ verdict' = Answer("validatePathSecurity",
                         validatePathSecurity(subject.url), {}, None, FALSE)
    /\ UNCHANGED <<subject, processVars, progressVars, uploadVars, folderVars>>

CallValidateUrlSSRFProtection ==
    /\ verdict.fn = "none"
    /\ subject.fn = "validateUrlSSRFProtection"
    /\ verdict' = Answer("validateUrlSSRFProtection",
                         validateUrlSSRFProtection(subject.url), {}, None, FALSE)
    /\ UNCHANGED <<subject, processVars, progressVars, uploadVars, folderVars>>

CallValidateUrlSecurity ==
    /\ verdict.fn = "none"
    /\ subject.fn = "validateUrlSecurity"
    /\ verdict' = Answer("validateUrlSecurity",
                         validateUrlSecurity(subject.url), {}, None, FALSE)
    /\ UNCHANGED <<subject, processVars, progressVars, uploadVars, folderVars>>

ParseFilePath ==
    /\ verdict.fn = "none"
    /\ subject.fn = "filePathSchema"
    /\ verdict' = Answer("filePathSchema", filePathSchema(subject.url), {},
                         None, FALSE)
    /\ UNCHANGED <<subject, processVars, progressVars, uploadVars, folderVars>>

ParseDocumentUpload ==
    /\ verdict.fn = "none"
    /\ subject.fn = "documentUploadSchema"
    /\ verdict' = IssuesAnswer("documentUploadSchema", UploadIssues(subject),
                               None, FALSE)
    /\ UNCHANGED <<subject, processVars, progressVars, uploadVars, folderVars>>

\* parsePageId and getNotionPageIdFromSlug answer as they like; an error
\* that leaves a refinement leaves the parse.
ParseNotionUrl ==
    /\ verdict.fn = "none"
    /\ subject.fn = "notionUrlUpdateSchema"
    /\ \E parse \in ParseAnswers, slug \in SlugAnswers :
         LET Parsed(page) ==
                 IssuesAnswer("notionUrlUpdateSchema",
                              NotionIssues(subject.url, page), <<parse, slug>>,
                              page = "raised")
         IN  verdict' = Parsed(NotionPageRefine(subject.url, parse, slug))
    /\ UNCHANGED <<subject, processVars, progressVars, uploadVars, folderVars>>

NextValidate ==
    \/ CallValidatePathSecurity
    \/ CallValidateUrlSSRFProtection
    \/ CallValidateUrlSecurity
    \/ ParseFilePath
    \/ ParseDocumentUpload
    \/ ParseNotionUrl

SpecValidate == InitValidate /\ [][NextValidate]_vars

\* -------------------------------------------------------------------------
\* The progress endpoint (src/pages/api/progress-token.ts)
\* -------------------------------------------------------------------------

\* Values the key-value store holds or answers: a progress record, null for
\* a key it does not hold, and the number 0 as a stored value that is not a
\* record.  Bodies of error responses have the same shape.
Progress(status, percentage) ==
    [kind |-> "record", status |-> status, percentage |-> percentage]
Null == [kind |-> "null", status |-> "", percentage |-> 0]
Zero == [kind |-> "number", status |-> "", percentage |-> 0]
ErrorBody(error) == [kind |-> "error", status |-> error, percentage |-> 0]

ProgressIds == {VersionId(1), VersionId(2)}

\* Faulty variant: the record is looked up under the bare version id.
ProgressKey_Bare(documentVersionId) == documentVersionId

\* `processing:${documentVersionId}`
ProgressKey(documentVersionId) == <<"processing:">> \o documentVersionId

\* The store as its writers leave it: under the key processing:<id> of a
\* version, nothing, a progress record, or 0.
KvStores ==
    [ { <<"processing:">> \o id : id \in ProgressIds } ->
        { Null, Progress("processing", 40), Progress("completed", 100), Zero } ]

\* redis.get(key)
Get(redis, k) == IF k \in DOMAIN redis THEN redis[k] ELSE Null

\* req.query.documentVersionId: absent, a string, or an array of strings.
Queries ==
    { [kind |-> "absent", value |-> <<>>], [kind |-> "string", value |-> <<>>],
      [kind |-> "array", value |-> VersionId(1)] }
    \cup { [kind |-> "string", value |-> id] : id \in ProgressIds }

\* A request, with what getServerSession and the store do while it is
\* handled: they answer or they throw.
Requests ==
    [ authenticated : BOOLEAN, documentVersionId : Queries,
      sessionLookup : {"answers", "throws"}, read : {"answers", "throws"} ]
NoRequest ==
    [ authenticated |-> FALSE,
      documentVersionId |-> [kind |-> "absent", value |-> <<>>],
      sessionLookup |-> "answers", read |-> "answers" ]

Response(status, body) == [status |-> status, body |-> body]

\* Faulty variant: the handler goes on without a session.
AfterSession_Unchecked(r) ==
    IF r.sessionLookup = "throws" THEN "catch" ELSE "param"

\* const session = await getServerSession(...); if (!session) ...
AfterSession(r) ==
    IF r.sessionLookup = "throws" THEN "catch"
    ELSE IF ~r.authenticated THEN "unauthorized"
    ELSE "param"

\* !documentVersionId || typeof documentVersionId !== 'string'
MissingId(q) == q.kind = "absent" \/ q.value = <<>> \/ q.kind # "string"

\* progress || { status: 'processing', percentage: 10 }
OrDefault(progress) ==
    IF progress.kind = "record" THEN progress ELSE Progress("processing", 10)

\* Faulty variant: the catch block answers with a server error.
CatchResponse_ServerError(error) == Response(500, ErrorBody(error))

\* catch (error): the fail-safe answer.
CatchResponse(error) == Response(200, Progress("processing", 5))

InitProgress ==
    /\ kv \in KvStores
    /\ request = NoRequest
    /\ hpc = "idle"
    /\ responses = <<>>
    /\ ProcessOff
    /\ subject = None /\ verdict = None
    /\ UploadOff /\ FolderOff

Receive ==
    /\ hpc = "idle"
    /\ \E r \in Requests : request' = r
    /\ hpc' = "session"
    /\ UNCHANGED <<kv, responses, processVars, validatorVars, uploadVars,
                   folderVars>>

\* 1. Check Authentication
GetSession ==
    /\ hpc = "session"
    /\ \/ /\ AfterSession(request) = "catch"
          /\ responses' = Append(responses, CatchResponse("session"))
          /\ hpc' = "done"
       \/ /\ AfterSession(request) = "unauthorized"
          /\ responses' = Append(responses, Response(401, ErrorBody("Unauthorized")))
          /\ hpc' = "done"
       \/ /\ AfterSession(request) = "param"
          /\ hpc' = "param"
          /\ UNCHANGED responses
    /\ UNCHANGED <<kv, request, processVars, validatorVars, uploadVars,
                   folderVars>>

CheckParam ==
    /\ hpc = "param"
    /\ \/ /\ MissingId(request.documentVersionId)
          /\ responses' = Append(responses,
                                 Response(400, ErrorBody("Missing documentVersionId")))
          /\ hpc' = "done"
       \/ /\ ~MissingId(request.documentVersionId)
          /\ hpc' = "read"
          /\ UNCHANGED responses
    /\ UNCHANGED <<kv, request, processVars, validatorVars, uploadVars,
                   folderVars>>

\* 2. Connect to Redis, 3. Get Progress
ReadProgress ==
    /\ hpc = "read"
    /\ \/ /\ request.read = "throws"
          /\ responses' = Append(responses, CatchResponse("read"))
       \/ /\ request.read = "answers"
          /\ responses' =
               Append(responses,
                      Response(200,
                               OrDefault(Get(kv, ProgressKey(
                                   request.documentVersionId.value)))))
    /\ hpc' = "done"
    /\ UNCHANGED <<kv, request, processVars, validatorVars, uploadVars,
                   folderVars>>

NextProgress ==
    \/ Receive
    \/ GetSession
    \/ CheckParam
    \/ ReadProgress

SpecProgress == InitProgress /\ [][NextProgress]_vars

\* -------------------------------------------------------------------------
\* Properties of the validators and schemas (under SpecValidate)
\* -------------------------------------------------------------------------

Uploaded == verdict.fn = "documentUploadSchema"

\* C21: documentUploadSchema accepts a submission of type "link" exactly
\* when its url starts with https:// and passes validateUrlSecurity; the url
\* http://internal.local/x (no HTTPS) and the url https://localhost/x (an
\* internal host) are both rejected with an issue on the url field.
C21_LinkNeedsHttpsAndSecureUrl ==
    (Uploaded /\ subject.type = "link") =>
        /\ verdict.ok <=> /\ startsWith(subject.url, <<"h", "t", "t", "p", "s", ":", "/", "/">>)
                          /\ validateUrlSecurity(subject.url)
        /\ ~verdict.ok => "url" \in verdict.issues
        /\ subject.url \in {InternalHttpUrl, LocalhostHttpsUrl} =>
               ~verdict.ok /\ "url" \in verdict.issues

C21_LocalhostLinkRejected ==
    /\ Uploaded /\ subject.type = "link"
    /\ subject.url = LocalhostHttpsUrl
    /\ ~verdict.ok /\ "url" \in verdict.issues

\* What C22 asks of a submission that passes the content-type rule, without
\* the case of type link.
MapsToDeclaredType(data) ==
    IF data.contentType = None THEN data.type \in {"notion", "link"}
    ELSE \/ getSupportedContentType(data.contentType) = data.type
         \/ data.contentType = <<"text/", "html">> /\ data.type = "notion"

\* C22 as stated: a submission passes the content-type rule only if, the
\* content type being absent, its type is notion or link and, the content
\* type being present, it maps through the type classifier to the declared
\* type or is text/html with type notion.
C22_PassesOnlyIfContentTypeMaps ==
    (Uploaded /\ "contentType" \notin verdict.issues) => MapsToDeclaredType(subject)

\* C22, amended: a submission passes the content-type rule exactly when its
\* type is link, or its content type is absent and its type is notion, or
\* its content type is present and maps through the type classifier to the
\* declared type or is text/html with type notion.
C22_ContentTypeRuleExceptLink ==
    Uploaded =>
        ("contentType" \notin verdict.issues <=>
            (subject.type = "link" \/ MapsToDeclaredType(subject)))

C22_LinkWithPdfContentTypePasses ==
    /\ Uploaded /\ subject.type = "link"
    /\ subject.contentType = <<"application/", "pdf">>
    /\ "contentType" \notin verdict.issues

\* C23: for a submission that is no link and names its storage type, the
\* url is accepted (no issue on url or storageType) with S3_PATH exactly
\* when it does not start with https:// and matches the path grammar, and
\* with VERCEL_BLOB exactly when it is an https:// URL that passes
\* validateUrlSecurity or it matches the path grammar.
C23_UrlShapePerStorageType ==
    (Uploaded /\ subject.type # "link" /\ subject.storageType # Undefined) =>
        LET accepted == /\ "url" \notin verdict.issues
                        /\ "storageType" \notin verdict.issues
            https == startsWith(subject.url, <<"h", "t", "t", "p", "s", ":", "/", "/">>)
        IN  /\ subject.storageType = "S3_PATH" =>
                (accepted <=> (~https /\ s3PathPattern(subject.url)))
            /\ subject.storageType = "VERCEL_BLOB" =>
                (accepted <=> \/ https /\ validateUrlSecurity(subject.url)
                              \/ s3PathPattern(subject.url))
            /\ verdict.ok => accepted

C23_S3PathAccepted ==
    /\ Uploaded /\ subject.type = "pdf" /\ subject.storageType = "S3_PATH"
    /\ subject.url = <<"t", "e", "a", "m", "-", "1", "/", "d", "o", "c", "_", "a", "_", "b", "/", "r", "e", ".", ".", "p", "o", "r", "t", ".", "v", "2", ".", "p", "d", "f">>
    /\ subject.contentType = <<"application/", "pdf">>
    /\ verdict.ok

\* The pieces of the IPv6 address a URL names as its host, <<>> when the
\* string is no URL or its host is no IPv6 address.
HostPieces(url) ==
    LET Inner(urlObj) ==
            IF urlObj.ok /\ Len(urlObj.hostname) > 2 /\ urlObj.hostname[1] = "["
            THEN ParseIPv6(SubSeq(urlObj.hostname, 2, Len(urlObj.hostname) - 1))
            ELSE <<>>
    IN  Inner(URL(url))

IPv6Loopback(pieces) == pieces = <<0, 0, 0, 0, 0, 0, 0, 1>>

\* fe80::/10: the first ten bits are 1111 1110 10.
IPv6LinkLocal(pieces) == pieces # <<>> /\ pieces[1] \div 64 = 1018

\* C24: validateUrlSSRFProtection rejects every URL whose host is the IPv6
\* loopback address ::1 or an IPv6 address in fe80::/10, in any letter case,
\* and every string that does not parse as a URL.
C24_IPv6LoopbackAndLinkLocalRejected ==
    verdict.fn = "validateUrlSSRFProtection" =>
        /\ ( \/ IPv6Loopback(HostPieces(subject.url))
             \/ IPv6LinkLocal(HostPieces(subject.url)) ) => ~verdict.ok
        /\ ~URL(subject.url).ok => ~verdict.ok

InternalQuad(q) ==
    \/ q = <<127, 0, 0, 1>>
    \/ q[1] = 10
    \/ q[1] = 172 /\ q[2] \in 16..31
    \/ q[1] = 192 /\ q[2] = 168
    \/ q[1] = 169 /\ q[2] = 254

\* C25: for a dotted-quad host a.b.c.d, validateUrlSSRFProtection rejects
\* the URL exactly when the address is 127.0.0.1 or lies in 10.0.0.0/8,
\* 172.16.0.0/12, 192.168.0.0/16 or 169.254.0.0/16; the host name localhost
\* is rejected too.
C25_IPv4RangesRejectedExactly ==
    verdict.fn = "validateUrlSSRFProtection" =>
        /\ \A q \in Quads :
             subject.url = QuadUrl[q] => (verdict.ok <=> ~InternalQuad(q))
        /\ subject.url = LocalhostHttpsUrl => ~verdict.ok

C25_EndOfPrivateRange ==
    /\ verdict.fn = "validateUrlSSRFProtection"
    /\ \/ subject.url = QuadUrl[<<172, 31, 1, 2>>] /\ ~verdict.ok
       \/ subject.url = QuadUrl[<<172, 32, 1, 2>>] /\ verdict.ok

ForbiddenFragments ==
    { <<".", ".", "/">>, <<".", ".", "\\">>, <<NUL>>, <<"%", "2", "E", "%", "2", "E">>, <<"%", "2", "F", "%", "2", "F">> }

\* C26: validatePathSecurity answers false exactly for the strings that
\* contain "../", "..\", a null byte, "%2E%2E" or "%2F%2F", and
\* validateUrlSecurity(s) is validatePathSecurity(s) and
\* validateUrlSSRFProtection(s).
C26_PathSecurityAndConjunction ==
    /\ verdict.fn = "validatePathSecurity" =>
         (verdict.ok <=> ~\E f \in ForbiddenFragments : Includes(subject.url, f))
    /\ verdict.fn = "validateUrlSecurity" =>
         (verdict.ok <=> /\ validatePathSecurity(subject.url)
                         /\ validateUrlSSRFProtection(subject.url))

C26_BackslashTraversalRejected ==
    /\ verdict.fn = "validatePathSecurity"
    /\ Includes(subject.url, <<".", ".", "\\">>)
    /\ ~Includes(subject.url, <<".", ".", "/">>)
    /\ ~verdict.ok

\* C27: notionUrlUpdateSchema accepts a URL exactly when it uses HTTPS,
\* passes validatePathSecurity and validateUrlSSRFProtection, and a page id
\* is found by direct parsing or by the slug lookup, on notion.so,
\* notion.site and custom-domain hosts alike; a slug lookup that throws makes
\* the URL invalid and raises no error.
C27_NotionUrlNeedsPageId ==
    verdict.fn = "notionUrlUpdateSchema" =>
        LET found == \/ verdict.env[1] = "id"
                     \/ verdict.env[1] = "none" /\ verdict.env[2] = "id"
        IN  /\ ~verdict.raised
            /\ verdict.ok <=> /\ startsWith(subject.url, <<"h", "t", "t", "p", "s", ":", "/", "/">>)
                              /\ validatePathSecurity(subject.url)
                              /\ validateUrlSSRFProtection(subject.url)
                              /\ found
            /\ (verdict.env[1] = "none" /\ verdict.env[2] = "throws") =>
                   ~verdict.ok /\ "page" \in verdict.issues

C27_CustomDomainSlugThrows ==
    /\ verdict.fn = "notionUrlUpdateSchema"
    /\ subject.url = <<"h", "t", "t", "p", "s", ":", "/", "/", "d", "o", "c", "s", ".", "a", "c", "m", "e", ".", "c", "o", "m", "/", "p", "a", "g", "e">>
    /\ verdict.env = <<"none", "throws">>
    /\ ~verdict.ok /\ ~verdict.raised
    /\ verdict.issues = {"page"}

\* -------------------------------------------------------------------------
\* Properties of the progress endpoint (under SpecProgress)
\* -------------------------------------------------------------------------

SessionFound == request.sessionLookup = "answers" /\ request.authenticated
NoSession == request.sessionLookup = "answers" /\ ~request.authenticated
IdGiven ==
    /\ request.documentVersionId.kind = "string"
    /\ request.documentVersionId.value # <<>>
Sent(i) == responses[i]

\* C28: the progress endpoint answers with a status other than 200 only
\* when there is no session (401) or when documentVersionId is missing or
\* no string (400); a fault of the session lookup or of the read of the
\* key-value store gives status 200.
C28_Non200OnlyForAuthAndParam ==
    \A i \in 1..Len(responses) :
        /\ Sent(i).status \in {200, 400, 401}
        /\ Sent(i).status = 401 <=> NoSession
        /\ Sent(i).status = 400 <=> (SessionFound /\ ~IdGiven)
        /\ request.sessionLookup = "throws" => Sent(i).status = 200
        /\ (SessionFound /\ IdGiven /\ request.read = "throws") =>
               Sent(i).status = 200

C28_ReadFaultAnswered200 ==
    /\ hpc = "done" /\ SessionFound /\ IdGiven
    /\ request.read = "throws"
    /\ Len(responses) = 1 /\ Sent(1).status = 200

\* C29 as stated: a request without an authenticated session never gets a
\* 200 answer, also when the session lookup fails.
C29_NoSessionNever200 ==
    ~request.authenticated =>
        \A i \in 1..Len(responses) : Sent(i).status # 200

\* C29, amended: a request without an authenticated session never gets a
\* record of the key-value store; when the session lookup answers it gets
\* 401, and when the session lookup fails it gets 200 with the synthetic
\* {processing, 5}.
C29_NoSessionNeverStoredRecord ==
    ~request.authenticated =>
        \A i \in 1..Len(responses) :
            IF request.sessionLookup = "answers"
            THEN Sent(i).status = 401 /\ Sent(i).body.kind = "error"
            ELSE Sent(i) = Response(200, Progress("processing", 5))

C29_LookupFaultAnswered200 ==
    /\ hpc = "done" /\ ~request.authenticated
    /\ request.sessionLookup = "throws"
    /\ kv[<<"processing:">> \o VersionId(1)] = Progress("completed", 100)
    /\ request.documentVersionId.value = VersionId(1)
    /\ responses = <<Response(200, Progress("processing", 5))>>

\* C30: for a request with a session and a version id, the endpoint answers
\* 200 with the record stored under processing:<id> when there is one, with
\* {processing, 10} when there is none, and with {processing, 5} when the
\* read fails; every handled request gets exactly one response.
C30_StoredRecordOrSynthetic ==
    /\ Len(responses) = (IF hpc = "done" THEN 1 ELSE 0)
    /\ (hpc = "done" /\ SessionFound /\ IdGiven) =>
         LET stored == kv[<<"processing:">> \o request.documentVersionId.value]
         IN  Sent(1) =
               Response(200,
                        IF request.read = "throws" THEN Progress("processing", 5)
                        ELSE IF stored.kind = "record" THEN stored
                        ELSE Progress("processing", 10))

C30_StoredRecordReturned ==
    /\ hpc = "done" /\ SessionFound /\ request.read = "answers"
    /\ request.documentVersionId.value = VersionId(2)
    /\ kv[<<"processing:">> \o VersionId(1)] = Progress("processing", 40)
    /\ kv[<<"processing:">> \o VersionId(2)] = Progress("completed", 100)
    /\ responses = <<Response(200, Progress("completed", 100))>>

\* -------------------------------------------------------------------------
\* Further properties of processDocument (under Spec)
\* -------------------------------------------------------------------------

\* C31: for a payload of type link, processDocument rejects with the
\* invalid-URL error exactly when the key does not parse as a URL, and then
\* writes nothing; it asks neither for HTTPS nor for a public host, so the
\* keys http://internal.local/x and https://localhost/x pass the gate, reach
\* the commit and are stored as they are.
C31_LinkGateOnlyWantsAUrl ==
    (type = "link" /\ pc \notin {"idle", "link"}) =>
        /\ result = Rejected(InvalidUrlError) <=> ~ParsesAsUrl(key)
        /\ key = NotAUrl =>
             /\ pc = "rejected" /\ result = Rejected(InvalidUrlError)
             /\ store \in InitialStores
        /\ key \in {HttpUrl, LocalhostUrl} =>
             /\ result.error \notin GateErrors
             /\ pc \notin {"folder", "commit"} => CallsOf("document.create") # {}
             /\ Committed => StoredDocument.file = key

C31_LocalhostLinkCommitted ==
    /\ pc = "done" /\ type = "link"
    /\ key = LocalhostUrl
    /\ StoredDocument.file = LocalhostUrl

\* The store without the rows of the document of this call.
OtherRows ==
    Tables(store.documents \ {StoredDocument},
           store.versions \ VersionsOf(document.id),
           store.links \ LinksOf(document.id))

\* C32: after the commit the store holds the rows the commit wrote, but
\* for the page count of the primary version, which is 1 once the update of
\* the advanced mode has succeeded: type, downloadOnly, folder reference
\* and links of the document, versionNumber and isPrimary of the version and
\* the rows of other documents stay as they were.
C32_OnlyPageCountWrittenAfterCommit ==
    Committed =>
        /\ StoredDocument = CommitRecord.row
        /\ StoredDocument.type = type
        /\ StoredDocument.folderId = folderId
        /\ LinksOf(document.id) = Elements(CommitRecord.links)
        /\ VersionsOf(document.id) =
             { IF PageCountUpdated THEN [v EXCEPT !.numPages = Some(1)] ELSE v :
                 v \in Elements(CommitRecord.versions) }
        /\ \A v \in VersionsOf(document.id) : v.versionNumber = 1 /\ v.isPrimary
        /\ PageCountUpdated => AdvancedMode(args)
        /\ OtherRows \in InitialStores

C32_PageCountRewritten ==
    /\ pc = "done"
    /\ PageCountUpdated
    /\ CommitRecord.versions[1].numPages = Some(MaxNumPages)
    /\ Cardinality(store.documents) = MaxExisting + 1
    /\ args.createLink

AllTypes ==
    {"pdf", "docs", "slides", "sheet", "cad", "video", "image", "zip", "map",
     "email", "notion", "link"}
AllContentTypes == { k[2] : k \in FileKinds } \cup { <<"text/", "html">> }

\* C33: a call makes at most one trigger call, failed or not, and no pair
\* of type and content type has two tasks.
C33_AtMostOneTrigger ==
    /\ Cardinality(CallsOf("trigger")) <= 1
    /\ pc = "dispatch" =>
         \A t \in AllTypes, ct \in AllContentTypes :
             Len(Tasks([args EXCEPT !.documentData.supportedFileType = t,
                                    !.documentData.contentType = ct],
                       document)) <= 1

C33_FailedTriggerNotRetried ==
    /\ pc = "done"
    /\ type = "docs"
    /\ FailedTrigger
    /\ Cardinality(CallsOf("trigger")) = 1

\* Ids of the alphabet of the path grammar.
GrammarIds == { <<"a">>, <<"a", "-", "b">>, <<"b">>, <<"b", "-", "c">>, <<"c">> }

\* The dispatches of every payload for a team and a version of those ids.
DispatchesOf(tid, vid) ==
    UNION { Elements(Tasks([args EXCEPT !.teamId = tid, !.documentData = data],
                           [document EXCEPT !.versions[1].id = vid])) :
              data \in FilePayloads }

GrammarDispatches ==
    UNION { DispatchesOf(tid, vid) : tid \in GrammarIds, vid \in GrammarIds }

\* C35: two dispatches that differ in team id, version id or task kind do
\* not submit the same idempotency key, for ids of letters, digits,
\* underscores and hyphens.
C35_KeysDoNotCollide ==
    (pc = "dispatch" /\ type = "pdf" /\ args.teamPlan = "free") =>
        \A d, e \in GrammarDispatches :
            ( \/ d.payload.teamId # e.payload.teamId
              \/ d.payload.documentVersionId # e.payload.documentVersionId
              \/ d.task # e.task ) =>
                d.options.idempotencyKey # e.options.idempotencyKey

\* -------------------------------------------------------------------------
\* Further properties of the validators and schemas (under SpecValidate)
\* -------------------------------------------------------------------------

\* C34: a submission without storageType is accepted exactly when the same
\* submission with storageType VERCEL_BLOB is accepted.
C34_OmittedStorageTypeIsVercelBlob ==
    (Uploaded /\ subject.storageType = Undefined) =>
        (verdict.ok <=>
            UploadIssues([subject EXCEPT !.storageType = "VERCEL_BLOB"]) = {})

LowerCaseEncoded ==
    { <<"%", "2", "e", "%", "2", "e">>, <<"%", "2", "f", "%", "2", "f">> }

MaxCalls == 3
MaxResets == 1

\* dataroomName, as the props give it ("" when it is missing).
DataroomNames == { <<>>, <<"A">>, <<"B">> }
\* The path the folders endpoint or createFolderInMainDocs answers with.
FolderPaths == { <<"/", "a">>, <<"a">>, <<"/", "b">> }

\* x.startsWith("/") ? x.slice(1) : x
StripSlash(path) == IF startsWith(path, <<"/">>) THEN Tail(path) ELSE path

\* A ref holds null (None) or a value; "" is a value that is not truthy.
Truthy(ref) == ref # None /\ ref[1] # <<>>

GotPath(path) == [kind |-> "path", value |-> path]
GotPromise(k) == [kind |-> "promise", value |-> k]
Caller(epoch, got) == [epoch |-> epoch, got |-> got]

\* One creation promise: where its body stands, the epoch of the call that
\* made it, the dataroomName its closure holds, whether it has issued the
\* folder-creation request, and the value it resolved with.
Creation(cpc, epoch, name, requested, value) ==
    [pc |-> cpc, epoch |-> epoch, name |-> name, requested |-> requested,
     value |-> value]

InitFolder ==
    /\ dataroomFolderPathRef = None
    /\ dataroomFolderCreationPromiseRef = None
    /\ creations = <<>>
    /\ callers = <<>>
    /\ props \in [teamId : BOOLEAN, dataroomName : DataroomNames, resets : {0}]
    /\ ProcessOff
    /\ subject = None /\ verdict = None
    /\ kv = None /\ request = None /\ hpc = None /\ responses = None
    /\ UploadOff

\* The body of the creation promise resolves with a folder path.
Resolved(k, folderPath) ==
    /\ creations' = [creations EXCEPT ![k].pc = "settled",
                                      ![k].value = Some(folderPath)]
    /\ dataroomFolderPathRef' = Some(folderPath)
    /\ dataroomFolderCreationPromiseRef' = None

\* The catch block: the fallback path is the dataroomName of the closure.
Caught(k) == Resolved(k, creations[k].name)

\* A call of getOrCreateDataroomFolder, up to its return.
GetOrCreateDataroomFolder ==
    /\ props # None
    /\ Len(callers) < MaxCalls
    /\ LET k == Len(creations) + 1
           missing == ~props.teamId \/ props.dataroomName = <<>>
       IN  IF Truthy(dataroomFolderPathRef)
           THEN /\ callers' = Append(callers,
                        Caller(props.resets, GotPath(dataroomFolderPathRef[1])))
                /\ UNCHANGED <<dataroomFolderPathRef,
                               dataroomFolderCreationPromiseRef, creations>>
           ELSE IF dataroomFolderCreationPromiseRef # None
           THEN /\ callers' = Append(callers,
                        Caller(props.resets,
                               GotPromise(dataroomFolderCreationPromiseRef[1])))
                /\ UNCHANGED <<dataroomFolderPathRef,
                               dataroomFolderCreationPromiseRef, creations>>
           ELSE /\ callers' = Append(callers,
                                     Caller(props.resets, GotPromise(k)))
                /\ dataroomFolderCreationPromiseRef' = Some(k)
                /\ IF missing
                   THEN \* thrown before the first await: catch and finally
                        \* have run when the promise is stored
                        /\ creations' = Append(creations,
                               Creation("settled", props.resets,
                                        props.dataroomName, FALSE,
                                        Some(props.dataroomName)))
                        /\ dataroomFolderPathRef' = Some(props.dataroomName)
                   ELSE /\ creations' = Append(creations,
                               Creation("listing", props.resets,
                                        props.dataroomName, FALSE, None))
                        /\ UNCHANGED dataroomFolderPathRef
    /\ UNCHANGED <<props, processVars, validatorVars, progressVars, uploadVars>>

\* The folders listing answers (or its fetch throws).
ExistingFoldersAnswered ==
    /\ props # None
    /\ \E k \in DOMAIN creations :
         /\ creations[k].pc = "listing"
         /\ \/ Caught(k)
            \/ \E path \in FolderPaths : Resolved(k, StripSlash(path))
            \/ /\ creations' = [creations EXCEPT ![k].pc = "creating",
                                                 ![k].requested = TRUE]
               /\ UNCHANGED <<dataroomFolderPathRef,
                              dataroomFolderCreationPromiseRef>>
    /\ UNCHANGED <<callers, props, processVars, validatorVars, progressVars,
                   uploadVars>>

\* createFolderInMainDocs answers (or throws).
CreateFolderAnswered ==
    /\ props # None
    /\ \E k \in DOMAIN creations :
         /\ creations[k].pc = "creating"
         /\ \/ Caught(k)
            \/ \E path \in FolderPaths : Resolved(k, StripSlash(path))
    /\ UNCHANGED <<callers, props, processVars, validatorVars, progressVars,
                   uploadVars>>

\* The effect on [replicateDataroomFolders, dataroomId]: the dataroom changes.
ResetRefs ==
    /\ props # None
    /\ props.resets < MaxResets
    /\ dataroomFolderPathRef' = None
    /\ dataroomFolderCreationPromiseRef' = None
    /\ \E name \in DataroomNames :
         props' = [props EXCEPT !.resets = @ + 1, !.dataroomName = name]
    /\ UNCHANGED <<creations, callers, processVars, validatorVars,
                   progressVars, uploadVars>>

NextFolder ==
    \/ GetOrCreateDataroomFolder
    \/ ExistingFoldersAnswered
    \/ CreateFolderAnswered
    \/ ResetRefs

SpecFolder == InitFolder /\ [][NextFolder]_vars

\* The path caller i has received, once its promise has settled.
Received(i) ==
    IF callers[i].got.kind = "path" THEN Some(callers[i].got.value)
    ELSE creations[callers[i].got.value].value

\* C38: between two resets the folder-creation request is issued at most
\* once, and all callers of getOrCreateDataroomFolder receive the same path.
C38_SingleFlightBetweenResets ==
    /\ \A k1, k2 \in DOMAIN creations :
         (/\ creations[k1].epoch = creations[k2].epoch
          /\ creations[k1].requested /\ creations[k2].requested) => k1 = k2
    /\ \A i, j \in DOMAIN callers :
         (/\ callers[i].epoch = callers[j].epoch
          /\ Received(i) # None /\ Received(j) # None)
             => Received(i) = Received(j)

\* ---------------------------------------------------------------------
\* One drop of files on the upload zone (src/unnamed/part_002, onDrop):
\* the size check, one upload task per valid file, and the report to
\* onUploadSuccess once Promise.all of the tasks has settled.
\* ---------------------------------------------------------------------

PdfType == <<"application/", "pdf">>
PngType == <<"image/", "png">>

\* A dropped file: tooBig is file.size > fileSizeLimit, tooManyPages is
\* numPages > fileSizeLimits.maxPages (read for a PDF only).
File(name, mime, tooBig, tooManyPages) ==
    [name |-> name, type |-> mime, tooBig |-> tooBig,
     tooManyPages |-> tooManyPages]
FilesNamed(names) ==
    { File(n, PdfType, big, many) : n \in names, big \in BOOLEAN, many \in BOOLEAN }
        \cup { File(n, PngType, big, FALSE) : n \in names, big \in BOOLEAN }
AcceptedFiles ==
    { <<f>> : f \in FilesNamed({"a"}) }
        \cup { <<f, g>> : f \in FilesNamed({"a"}), g \in FilesNamed({"a", "b"}) }

\* The drops: one or two files, NEXT_PUBLIC_UPLOAD_TRANSPORT and whether the zone
\* belongs to a dataroom.
Drops ==
    [files : AcceptedFiles,
     uploadTransport : {"vercel", "tus"},
     dataroomId : BOOLEAN,
     pc : {"idle"}]

UploadId(index) == <<"u", Digit(index)>>

\* Math.round of a number given in tenths, and Math.min.
MathRound(tenths) == (tenths + 5) \div 10
MathMin(a, b) == IF a <= b THEN a ELSE b

CappedProgress_Uncapped(tenths) == MathRound(tenths)

\* The progress an upload entry is given while its file is transferred.
CappedProgress(tenths) == MathMin(MathRound(tenths), 99)

\* The progress events of the two transports: the percentage of
\* onUploadProgress in tenths, and <<bytesUploaded, bytesTotal>> of onProgress.
VercelPercentages == {505, 1000}
TusProgresses == { <<101, 200>>, <<199, 200>> }
ProgressEvents(uploadTransport) ==
    IF uploadTransport = "vercel" THEN VercelPercentages
    ELSE { (e[1] * 1000) \div e[2] : e \in TusProgresses }

Valid(files) == SelectSeq(files, LAMBDA f : ~f.tooBig)
Invalid(files) ==
    LET big == SelectSeq(files, LAMBDA f : f.tooBig)
    IN  [i \in DOMAIN big |->
            [fileName |-> big[i].name, message |-> "File size too big"]]

NewUploads(valid) ==
    [i \in DOMAIN valid |->
        [fileName |-> valid[i].name, progress |-> 0, uploadId |-> UploadId(i),
         documentId |-> None]]

\* An upload task: where its body stands or how it settled, the error it
\* rejected with, the document createDocument returned, and how the
\* dataroom attach went.
Task(tpc, doc, attach) ==
    [pc |-> tpc, error |-> "", document |-> doc, attach |-> attach]
StartedTasks(valid) ==
    [i \in DOMAIN valid |->
        Task(IF valid[i].type = PdfType THEN "pages" ELSE "transfer",
             None, "none")]

\* setUploads updaters
WithoutFileName(us, fileName) == SelectSeq(us, LAMBDA u : u.fileName # fileName)
WithoutUploadId(us, uploadId) == SelectSeq(us, LAMBDA u : u.uploadId # uploadId)
WithProgress(us, uploadId, progress) ==
    [k \in DOMAIN us |->
        IF us[k].uploadId = uploadId THEN [us[k] EXCEPT !.progress = progress]
        ELSE us[k]]
Completed(us, uploadId, documentId) ==
    [k \in DOMAIN us |->
        IF us[k].uploadId = uploadId
        THEN [us[k] EXCEPT !.progress = 100, !.documentId = Some(documentId)]
        ELSE us[k]]

RejectedFile(fileName, message) == [fileName |-> fileName, message |-> message]

InitUpload ==
    /\ uploads = <<>>
    /\ rejectedFiles = <<>>
    /\ drop \in Drops
    /\ tasks = <<>>
    /\ successCalls = <<>>
    /\ ProcessOff
    /\ subject = None /\ verdict = None
    /\ kv = None /\ request = None /\ hpc = None /\ responses = None
    /\ FolderOff

restOfUpload == <<processVars, validatorVars, progressVars, folderVars>>

\* onDrop up to the start of the upload tasks.
OnDrop ==
    /\ drop # None
    /\ drop.pc = "idle"
    /\ \E gate \in {"open", "paused", "full"} :
         IF gate # "open"
         THEN /\ drop' = [drop EXCEPT !.pc = "returned"]
              /\ UNCHANGED <<uploads, rejectedFiles, tasks>>
         ELSE /\ rejectedFiles' = Invalid(drop.files) \o rejectedFiles
              /\ IF Valid(drop.files) = <<>>
                 THEN /\ drop' = [drop EXCEPT !.pc = "returned"]
                      /\ UNCHANGED <<uploads, tasks>>
                 ELSE /\ drop' = [drop EXCEPT !.pc = "awaiting"]
                      /\ uploads' = uploads \o NewUploads(Valid(drop.files))
                      /\ tasks' = StartedTasks(Valid(drop.files))
    /\ UNCHANGED <<successCalls, restOfUpload>>

\* getPagesCount has answered for a PDF.
CountPages ==
    /\ \E i \in DOMAIN tasks :
         /\ tasks[i].pc = "pages"
         /\ LET file == Valid(drop.files)[i]
            IN  IF file.tooManyPages
                THEN /\ uploads' = WithoutFileName(uploads, file.name)
                     /\ rejectedFiles' =
                          <<RejectedFile(file.name, "File has too many pages")>>
                              \o rejectedFiles
                     /\ tasks' = [tasks EXCEPT ![i].pc = "undefined"]
                ELSE /\ tasks' = [tasks EXCEPT ![i].pc = "transfer"]
                     /\ UNCHANGED <<uploads, rejectedFiles>>
    /\ UNCHANGED <<drop, successCalls, restOfUpload>>

\* A progress event of the transfer.
UploadProgress ==
    /\ \E i \in DOMAIN tasks :
         /\ tasks[i].pc = "transfer"
         /\ \E tenths \in ProgressEvents(drop.uploadTransport) :
              uploads' = WithProgress(uploads, UploadId(i), CappedProgress(tenths))
    /\ UNCHANGED <<rejectedFiles, drop, tasks, successCalls, restOfUpload>>

\* The transfer has ended: complete fulfils, or the upload fails.
TransferSettled ==
    /\ \E i \in DOMAIN tasks :
         /\ tasks[i].pc = "transfer"
         /\ \/ /\ tasks' = [tasks EXCEPT ![i].pc = "create"]
               /\ UNCHANGED <<uploads, rejectedFiles>>
            \/ /\ uploads' = WithoutUploadId(uploads, UploadId(i))
               /\ rejectedFiles' =
                    <<RejectedFile(Valid(drop.files)[i].name, "Error uploading file")>>
                        \o rejectedFiles
               /\ tasks' = [tasks EXCEPT ![i].pc = "rejected",
                                          ![i].error = "upload"]
    /\ UNCHANGED <<drop, successCalls, restOfUpload>>

\* createDocument, whose code lies outside these sources: it resolves with
\* the response that carries the created document, or it throws.
createDocument == {"created", "thrown"}

\* createDocument and response.json() have answered.
CreateDocument ==
    /\ \E i \in DOMAIN tasks :
         /\ tasks[i].pc = "create"
         /\ \E answer \in createDocument :
              tasks' = IF answer = "thrown"
                       THEN [tasks EXCEPT ![i].pc = "rejected",
                                          ![i].error = "createDocument"]
                       ELSE [tasks EXCEPT
                                ![i].pc = IF drop.dataroomId THEN "attach"
                                          ELSE "complete",
                                ![i].document = Some(DocId(i))]
    /\ UNCHANGED <<uploads, rejectedFiles, drop, successCalls, restOfUpload>>

\* The POST that adds the document to the dataroom has answered.
AttachToDataroom ==
    /\ \E i \in DOMAIN tasks :
         /\ tasks[i].pc = "attach"
         /\ \E outcome \in {"ok", "notOk", "notOkUnreadable", "threw"} :
              tasks' = [tasks EXCEPT
                  ![i].pc = IF outcome = "notOk" THEN "undefined" ELSE "complete",
                  ![i].attach = outcome]
    /\ UNCHANGED <<uploads, rejectedFiles, drop, successCalls, restOfUpload>>

\* The entry is completed; the task returns unless it reads the answer of
\* the dataroom first.
CompleteUpload ==
    /\ \E i \in DOMAIN tasks :
         /\ tasks[i].pc = "complete"
         /\ uploads' = Completed(uploads, UploadId(i), tasks[i].document[1])
         /\ tasks' = [tasks EXCEPT
                ![i].pc = IF tasks[i].attach = "ok" THEN "dataroomId"
                          ELSE "fulfilled"]
    /\ UNCHANGED <<rejectedFiles, drop, successCalls, restOfUpload>>

\* dataroomResponse.json() has answered.
ReadDataroomDocumentId ==
    /\ \E i \in DOMAIN tasks :
         /\ tasks[i].pc = "dataroomId"
         /\ \E readable \in BOOLEAN :
              tasks' = IF readable
                       THEN [tasks EXCEPT ![i].pc = "fulfilled"]
                       ELSE [tasks EXCEPT ![i].pc = "rejected",
                                          ![i].error = "json"]
    /\ UNCHANGED <<uploads, rejectedFiles, drop, successCalls, restOfUpload>>

\* Promise.all over the tasks
PromiseAll(ts) ==
    IF \E i \in DOMAIN ts : ts[i].pc = "rejected" THEN "rejected"
    ELSE IF \A i \in DOMAIN ts : ts[i].pc \in {"fulfilled", "undefined"}
         THEN "fulfilled"
         ELSE "pending"

\* uploadedDocuments.map(...): the argument of onUploadSuccess, or None for
\* the TypeError of reading the id of undefined.
Reported(ts, files) ==
    IF \E i \in DOMAIN ts : ts[i].pc = "undefined" THEN None
    ELSE Some([i \in DOMAIN ts |->
                 [documentId |-> ts[i].document[1],
                  dataroomDocumentId |->
                      IF ts[i].attach = "ok" THEN Some(ts[i].document[1])
                      ELSE None,
                  fileName |-> files[i].name]])

\* await documents, and the rest of onDrop.
AwaitDocuments ==
    /\ drop # None
    /\ drop.pc = "awaiting"
    /\ PromiseAll(tasks) # "pending"
    /\ LET report == IF PromiseAll(tasks) = "rejected" THEN None
                     ELSE Reported(tasks, Valid(drop.files))
       IN  IF report = None
           THEN /\ drop' = [drop EXCEPT !.pc = "thrown"]
                /\ UNCHANGED successCalls
           ELSE /\ drop' = [drop EXCEPT !.pc = "done"]
                /\ successCalls' = Append(successCalls, report[1])
    /\ UNCHANGED <<uploads, rejectedFiles, tasks, restOfUpload>>

NextUpload ==
    \/ OnDrop
    \/ CountPages
    \/ UploadProgress
    \/ TransferSettled
    \/ CreateDocument
    \/ AttachToDataroom
    \/ CompleteUpload
    \/ ReadDataroomDocumentId
    \/ AwaitDocuments

SpecUpload == InitUpload /\ [][NextUpload]_vars

\* The upload entry of task i, if it is still listed.
EntriesOf(i) == { k \in DOMAIN uploads : uploads[k].uploadId = UploadId(i) }

TransferError(i) == tasks[i].pc = "rejected" /\ tasks[i].error = "upload"
TooManyPages(i) == tasks[i].pc = "undefined" /\ tasks[i].document = None
AttachRefused(i) == tasks[i].attach = "notOk"
AttachNotAnswered(i) == tasks[i].attach \in {"threw", "notOkUnreadable"}
Settled(i) == tasks[i].pc \in {"fulfilled", "undefined", "rejected"}

\* C39: onUploadSuccess is called at most once, after every task
\* has settled, only if every file produced a document; a transfer error, a
\* too-many-pages rejection or a failed dataroom attach of any file prevents
\* the call.
C39_AnyFailurePreventsCallback ==
    /\ Len(successCalls) <= 1
    /\ successCalls # <<>> =>
           \A i \in DOMAIN tasks : Settled(i) /\ tasks[i].document # None
    /\ (\E i \in DOMAIN tasks :
            \/ TransferError(i) \/ TooManyPages(i)
            \/ AttachRefused(i) \/ AttachNotAnswered(i))
           => successCalls = <<>>

\* What onDrop does keep: onUploadSuccess is called at most once, after every
\* task has settled, only if every file that passed the size check produced
\* a document; a transfer error, a too-many-pages rejection or a dataroom
\* attach answered with a readable refusal prevents the call.  An attach
\* whose request throws or whose refusal cannot be read is only logged: the
\* file is then reported with no dataroom document id.
ReportedUnlessAttachThrew ==
    /\ Len(successCalls) <= 1
    /\ successCalls # <<>> =>
           /\ drop.pc = "done"
           /\ \A i \in DOMAIN tasks :
                /\ tasks[i].pc = "fulfilled"
                /\ tasks[i].document = Some(DocId(i))
           /\ DOMAIN successCalls[1] = DOMAIN tasks
           /\ \A i \in DOMAIN tasks :
                /\ successCalls[1][i].documentId = DocId(i)
                /\ successCalls[1][i].dataroomDocumentId = None
                       <=> tasks[i].attach # "ok"
    /\ (\E i \in DOMAIN tasks :
            TransferError(i) \/ TooManyPages(i) \/ AttachRefused(i))
           => successCalls = <<>>
    /\ (drop # None /\ drop.pc = "done") => successCalls # <<>>

\* The attach of one file threw, and the batch was reported.
ThrownAttachStillReported ==
    /\ Len(successCalls) = 1
    /\ Len(tasks) = 2
    /\ tasks[1].attach = "threw"
    /\ tasks[2].attach = "ok"
    /\ successCalls[1][1].dataroomDocumentId = None
    /\ successCalls[1][2].dataroomDocumentId = Some(DocId(2))

====
